---- MODULE Spec2Model ----
(***************************************************************************)
(* Job discovery and application pipeline of the LinkedIn auto applier:    *)
(* the filter chain, the apply attempt, the success/failure ledger and the *)
(* reload of the ledger by a fresh process.                                *)
(*                                                                         *)
(* Texts (titles, descriptions, URLs, messages) are sequences of           *)
(* one-character strings, so that lower-casing, substring search, URL      *)
(* splitting and the experience pattern are computed, not assumed.         *)
(***************************************************************************)
EXTENDS Integers, Sequences, FiniteSets, TLC

\* ------------------------------------------------------------------------
\* Bounds of the model
\* ------------------------------------------------------------------------
MaxLedger == 2
MaxRuns == 2
MaxPages == 16
MaxPasses == 5
MaxStale == 3
MaxSessionRows == 3

\* ------------------------------------------------------------------------
\* Text primitives (Python str operations used by the code)
\* ------------------------------------------------------------------------
UpperLetters == <<"A", "B", "C", "D", "E", "F", "G", "H", "I", "J", "K", "L", "M", "N", "O", "P", "Q", "R", "S", "T", "U", "V", "W", "X", "Y", "Z">>
LowerLetters == <<"a", "b", "c", "d", "e", "f", "g", "h", "i", "j", "k", "l", "m", "n", "o", "p", "q", "r", "s", "t", "u", "v", "w", "x", "y", "z">>
Digits == {"0", "1", "2", "3", "4", "5", "6", "7", "8", "9"}
Spaces == {" ", "\t", "\n"}

\* str.lower() on one character
LowerChar(c) ==
    IF \E i \in 1..Len(UpperLetters) : UpperLetters[i] = c
    THEN LowerLetters[CHOOSE i \in 1..Len(UpperLetters) : UpperLetters[i] = c]
    ELSE c

\* str.lower()
Lower(text) == [i \in 1..Len(text) |-> LowerChar(text[i])]

\* Python's `sub in text`
Contains(sub, text) ==
    \E i \in 0..(Len(text) - Len(sub)) : SubSeq(text, i + 1, i + Len(sub)) = sub

\* str.isdigit(): non-empty and every character a digit
IsDigitStr(text) == Len(text) > 0 /\ \A i \in 1..Len(text) : text[i] \in Digits

\* str.rstrip("/")
RECURSIVE RStripSlash(_)
RStripSlash(text) ==
    IF Len(text) > 0 /\ text[Len(text)] = "/"
    THEN RStripSlash(SubSeq(text, 1, Len(text) - 1))
    ELSE text

\* text.split("/")[-1]: the part after the last "/" (the whole text if none)
LastSegment(text) ==
    LET slashes == {i \in 1..Len(text) : text[i] = "/"}
        last == IF slashes = {} THEN 0 ELSE CHOOSE i \in slashes : \A k \in slashes : k <= i
    IN SubSeq(text, last + 1, Len(text))

DigitValue(c) == CHOOSE n \in 0..9 : <<"0", "1", "2", "3", "4", "5", "6", "7", "8", "9">>[n + 1] = c

\* int(text) for a string of digits
RECURSIVE ToInt(_)
ToInt(text) ==
    IF Len(text) = 0 THEN 0
    ELSE 10 * ToInt(SubSeq(text, 1, Len(text) - 1)) + DigitValue(text[Len(text)])

\* ------------------------------------------------------------------------
\* Experience pattern  [(]?\s*(\d+)\s*[)]?\s*[-to]*\s*\d*[+]*\s*year[s]?
\* with re.IGNORECASE.  No piece of the pattern can consume a character a
\* later piece needs, so the greedy scan decides the match.
\* ------------------------------------------------------------------------
RECURSIVE SkipSet(_, _, _)
SkipSet(text, i, chars) ==
    IF i <= Len(text) /\ text[i] \in chars THEN SkipSet(text, i + 1, chars) ELSE i

SkipOpt(text, i, c) == IF i <= Len(text) /\ text[i] = c THEN i + 1 ELSE i

\* match of re_experience starting exactly at position i:
\* [ok, group (the captured digits), next (position after the match)]
MatchExperienceAt(text, i) ==
    LET a == SkipOpt(text, i, "(")
        b == SkipSet(text, a, Spaces)
        c == SkipSet(text, b, Digits)
        d == SkipSet(text, c, Spaces)
        e == SkipOpt(text, d, ")")
        f == SkipSet(text, e, Spaces)
        g == SkipSet(text, f, {"-", "t", "o", "T", "O"})
        h == SkipSet(text, g, Spaces)
        k == SkipSet(text, h, Digits)
        l == SkipSet(text, k, {"+"})
        m == SkipSet(text, l, Spaces)
        year == m + 3 <= Len(text) /\ Lower(SubSeq(text, m, m + 3)) = <<"y", "e", "a", "r">>
        n == IF m + 4 <= Len(text) /\ LowerChar(text[m + 4]) = "s" THEN m + 5 ELSE m + 4
    IN IF c > b /\ year
       THEN [ok |-> TRUE, group |-> SubSeq(text, b, c - 1), next |-> n]
       ELSE [ok |-> FALSE, group |-> <<>>, next |-> i + 1]

\* re.findall(re_experience, text): the captured groups, left to right
RECURSIVE FindAllExperience(_, _)

\* the scan after the attempt m at one position: a match yields its group and
\* the scan resumes behind it, no match moves the scan one character on
ResumeFindAll(text, m) ==
    IF m.ok THEN <<m.group>> \o FindAllExperience(text, m.next)
    ELSE FindAllExperience(text, m.next)

FindAllExperience(text, i) ==
    IF i > Len(text) THEN <<>> ELSE ResumeFindAll(text, MatchExperienceAt(text, i))

MaxYears == 40

\* extract_years_of_experience: 0 without a match; the largest match <= 40;
\* max() of an empty sequence raises ValueError when every match is above 40
UsableYears(matches) ==
    {ToInt(matches[i]) : i \in {k \in 1..Len(matches) : ToInt(matches[k]) <= MaxYears}}

SetMax(numbers) == CHOOSE v \in numbers : \A w \in numbers : w <= v

YearsFromMatches(matches) ==
    IF Len(matches) = 0 THEN [raised |-> FALSE, value |-> 0]
    ELSE IF UsableYears(matches) = {} THEN [raised |-> TRUE, value |-> 0]
    ELSE [raised |-> FALSE, value |-> SetMax(UsableYears(matches))]

extract_years_of_experience(text) == YearsFromMatches(FindAllExperience(text, 1))

\* ------------------------------------------------------------------------
\* Program literals
\* ------------------------------------------------------------------------
\* Python's None; no text of the model equals it (its only element is not a character)
None == <<"None">>

JobViewPrefix == <<"h", "t", "t", "p", "s", ":", "/", "/", "w", "w", "w", ".", "l", "i", "n", "k", "e", "d", "i", "n", ".", "c", "o", "m", "/", "j", "o", "b", "s", "/", "v", "i", "e", "w", "/">>
ClearanceTerms == <<<<"p", "o", "l", "y", "g", "r", "a", "p", "h">>, <<"c", "l", "e", "a", "r", "a", "n", "c", "e">>, <<"s", "e", "c", "r", "e", "t">>>>
ExcludedBadWord == <<"b", "a", "c", "k", "e", "n", "d">>
MasterWord == <<"m", "a", "s", "t", "e", "r">>
MastersBonus == 2
FixedTitleTerms == <<<<"F", "r", "o", "n", "t", "e", "n", "d", " ", "D", "e", "v", "e", "l", "o", "p", "e", "r">>, <<"A", "r", "a", "y", "u-umlaut", "z", " ", "U", "y", "g", "u", "l", "a", "m", "a", " ", "G", "e", "l", "i", "s-cedilla", "t", "i", "r", "m", "e", " ", "U", "z", "m", "a", "n", "dotless-i">>, <<"U", "I", "/", "U", "X", " ", "F", "r", "o", "n", "t", "e", "n", "d", " ", "E", "n", "g", "i", "n", "e", "e", "r">>, <<"U", "X", "/", "U", "I", " ", "D", "e", "s", "i", "g", "n", " ", "S", "p", "e", "c", "i", "a", "l", "i", "s", "t">>, <<"R", "e", "a", "c", "t", " ", "D", "e", "v", "e", "l", "o", "p", "e", "r">>, <<"R", "e", "a", "c", "t", ".", "j", "s", " ", "D", "e", "v", "e", "l", "o", "p", "e", "r">>, <<"N", "e", "x", "t", ".", "j", "s", " ", "D", "e", "v", "e", "l", "o", "p", "e", "r">>>>
PreviousResume == <<"P", "r", "e", "v", "i", "o", "u", "s", " ", "r", "e", "s", "u", "m", "e">>
UnknownText == <<"U", "n", "k", "n", "o", "w", "n">>

TitleReason == <<"J", "o", "b", " ", "t", "i", "t", "l", "e", " ", "o", "u", "t", "s", "i", "d", "e", " ", "c", "o", "n", "f", "i", "g", "u", "r", "e", "d", " ", "f", "r", "o", "n", "t", "e", "n", "d", " ", "e", "q", "u", "i", "v", "a", "l", "e", "n", "t", "s", ".">>
BadWordReason == <<"F", "o", "u", "n", "d", " ", "b", "a", "d", " ", "w", "o", "r", "d", " ", "i", "n", " ", "j", "o", "b", " ", "d", "e", "s", "c", "r", "i", "p", "t", "i", "o", "n">>
ClearanceReason == <<"S", "e", "c", "u", "r", "i", "t", "y", " ", "c", "l", "e", "a", "r", "a", "n", "c", "e", " ", "r", "e", "q", "u", "i", "r", "e", "d">>
ClearanceMessage == <<"S", "e", "c", "u", "r", "i", "t", "y", " ", "c", "l", "e", "a", "r", "a", "n", "c", "e", " ", "r", "e", "q", "u", "i", "r", "e", "m", "e", "n", "t", " ", "d", "e", "t", "e", "c", "t", "e", "d", ".", " ", "S", "k", "i", "p", "p", "i", "n", "g", " ", "j", "o", "b", ".">>
ExperienceReason == <<"R", "e", "q", "u", "i", "r", "e", "d", " ", "e", "x", "p", "e", "r", "i", "e", "n", "c", "e", " ", "t", "o", "o", " ", "h", "i", "g", "h">>
UnhandledMessage == <<"U", "n", "h", "a", "n", "d", "l", "e", "d", " ", "e", "x", "c", "e", "p", "t", "i", "o", "n", " ", "d", "u", "r", "i", "n", "g", " ", "a", "p", "p", "l", "y">>
EasyApplyFailedPrefix == <<"E", "a", "s", "y", " ", "a", "p", "p", "l", "y", " ", "f", "a", "i", "l", "e", "d", ":", " ">>
ExternalFailedPrefix == <<"F", "a", "i", "l", "e", "d", " ", "t", "o", " ", "c", "a", "p", "t", "u", "r", "e", " ", "e", "x", "t", "e", "r", "n", "a", "l", " ", "a", "p", "p", "l", "i", "c", "a", "t", "i", "o", "n", " ", "l", "i", "n", "k", ":", " ">>
DiscardedText == <<"A", "p", "p", "l", "i", "c", "a", "t", "i", "o", "n", " ", "d", "i", "s", "c", "a", "r", "d", "e", "d", " ", "b", "y", " ", "u", "s", "e", "r", ".">>
NotClickableText == <<"S", "u", "b", "m", "i", "t", " ", "b", "u", "t", "t", "o", "n", " ", "w", "a", "s", " ", "n", "o", "t", " ", "c", "l", "i", "c", "k", "a", "b", "l", "e", ".">>

HeaderRow == <<<<"t", "i", "m", "e", "s", "t", "a", "m", "p">>, <<"j", "o", "b", "_", "t", "i", "t", "l", "e">>, <<"c", "o", "m", "p", "a", "n", "y">>, <<"j", "o", "b", "_", "u", "r", "l">>, <<"a", "p", "p", "l", "i", "e", "d">>, <<"r", "e", "s", "u", "m", "e", "_", "p", "a", "t", "h">>, <<"e", "r", "r", "o", "r", "_", "m", "e", "s", "s", "a", "g", "e">>>>
JobUrlColumn == <<"j", "o", "b", "_", "u", "r", "l">>
\* datetime.utcnow().isoformat(): the clock is not modelled, every row carries the same stamp
UtcNow == <<"u", "t", "c", "n", "o", "w">>

\* str(n) for the numbers the messages print
DigitChars == <<"0", "1", "2", "3", "4", "5", "6", "7", "8", "9">>
RECURSIVE ToStr(_)
ToStr(n) == IF n < 10 THEN <<DigitChars[n + 1]>> ELSE ToStr(n \div 10) \o <<DigitChars[(n % 10) + 1]>>

AboutSkipMessage(company, bad_word) ==
    <<"S", "k", "i", "p", "p", "i", "n", "g", " ">> \o company \o <<" ", "d", "u", "e", " ", "t", "o", " ", "b", "l", "a", "c", "k", "l", "i", "s", "t", "e", "d", " ", "t", "e", "r", "m", " ">> \o bad_word
BadWordMessage(word) ==
    <<"J", "o", "b", " ", "d", "e", "s", "c", "r", "i", "p", "t", "i", "o", "n", " ", "c", "o", "n", "t", "a", "i", "n", "s", " ", "b", "l", "a", "c", "k", "l", "i", "s", "t", "e", "d", " ", "w", "o", "r", "d", " ", "\"">> \o word \o <<"\"", ".", " ", "S", "k", "i", "p", "p", "i", "n", "g", " ", "j", "o", "b", ".">>
ExperienceMessage(years) ==
    <<"E", "x", "p", "e", "r", "i", "e", "n", "c", "e", " ", "r", "e", "q", "u", "i", "r", "e", "d", " ", "(">> \o ToStr(years) \o <<")", " ", "e", "x", "c", "e", "e", "d", "s", " ", "c", "o", "n", "f", "i", "g", "u", "r", "e", "d", " ", "l", "i", "m", "i", "t", ".">>

\* ------------------------------------------------------------------------
\* Configuration (config/search.py, config/questions.py, config/settings.py,
\* the --headless flag and OPENAI_API_KEY), as accepted by the validator
\* ------------------------------------------------------------------------
BaseConfig ==
    [bad_words |-> <<<<"P", "H", "P">>>>,
     security_clearance |-> TRUE,
     did_masters |-> FALSE,
     current_experience |-> -1,
     job_titles |-> <<>>,
     search_terms |-> <<<<"R", "e", "a", "c", "t">>>>,
     about_company_bad_words |-> <<<<"A", "g", "e", "n", "c", "y">>, <<"S", "t", "a", "f", "f", "i", "n", "g">>>>,
     about_company_good_words |-> <<<<"I", "n", "c", "l", "u", "s", "i", "v", "e">>>>,
     pause_before_submit |-> TRUE,
     run_in_background |-> FALSE,
     headless |-> FALSE,
     api_key |-> TRUE,
     default_resume_path |-> <<"r", "e", "s", "u", "m", "e", "s", "/", "d", "e", "f", "a", "u", "l", "t", ".", "p", "d", "f">>,
     close_tabs |-> TRUE]

\* the filter settings in every combination
FilterConfigs ==
    {[BaseConfig EXCEPT !.bad_words = f.bad_words, !.security_clearance = f.security_clearance,
                        !.did_masters = f.did_masters, !.current_experience = f.current_experience,
                        !.job_titles = f.job_titles] :
        f \in [bad_words : {<<>>, <<<<"P", "H", "P">>>>, <<<<"B", "a", "c", "k", "e", "n", "d">>, <<"P", "H", "P">>>>},
               security_clearance : BOOLEAN,
               did_masters : BOOLEAN,
               current_experience : {-1, 3},
               job_titles : {<<>>, <<<<"F", "r", "o", "n", "t", "e", "n", "d", " ", "D", "e", "v", "e", "l", "o", "p", "e", "r">>>>, <<<<"C", "h", "e", "f">>>>}]}

\* the base configuration without and with an experience limit
ExperienceConfigs == {[BaseConfig EXCEPT !.current_experience = e] : e \in {-1, 3}}

\* the base configuration with the close_tabs setting on and off
TabConfigs == {[BaseConfig EXCEPT !.close_tabs = t] : t \in BOOLEAN}

\* the operator/UI settings in every combination
UiConfigs ==
    {[BaseConfig EXCEPT !.pause_before_submit = u.pause_before_submit,
                        !.run_in_background = u.run_in_background,
                        !.headless = u.headless, !.api_key = u.api_key] :
        u \in [pause_before_submit : BOOLEAN, run_in_background : BOOLEAN,
               headless : BOOLEAN, api_key : BOOLEAN]}

\* ------------------------------------------------------------------------
\* Postings the site can return
\* ------------------------------------------------------------------------
Job1 ==
    [id |-> <<"1">>, title |-> <<"S", "e", "n", "i", "o", "r", " ", "R", "e", "a", "c", "t", " ", "D", "e", "v", "e", "l", "o", "p", "e", "r">>, company |-> <<"A", "c", "m", "e">>,
     about |-> <<"A", "c", "m", "e", " ", "b", "u", "i", "l", "d", "s", " ", "a", "p", "p", "s">>, description |-> <<"R", "e", "q", "u", "i", "r", "e", "s", " ", "3", " ", "y", "e", "a", "r", "s">>, easy |-> TRUE]
Job2 ==
    [id |-> <<"2">>, title |-> <<"N", "e", "x", "t", ".", "j", "s", " ", "D", "e", "v", "e", "l", "o", "p", "e", "r">>, company |-> <<"B", "e", "t", "a">>,
     about |-> <<"B", "e", "t", "a", " ", "b", "u", "i", "l", "d", "s", " ", "a", "p", "p", "s">>, description |-> <<"P", "h", "P", " ", "B", "a", "c", "k", "E", "n", "d", " ", "S", "e", "c", "r", "e", "t", " ", "9", " ", "y", "e", "a", "r", "s", " ", "M", "a", "s", "t", "e", "r">>, easy |-> TRUE]
Job3 ==
    [id |-> <<"3">>, title |-> <<"C", "h", "e", "f">>, company |-> <<"G", "a", "m", "m", "a">>,
     about |-> <<"G", "a", "m", "m", "a", " ", "S", "T", "A", "F", "F", "I", "N", "G", " ", "a", "g", "e", "n", "c", "y">>, description |-> <<"p", "h", "p", " ", "5", " ", "y", "e", "a", "r", "s">>, easy |-> FALSE]
Job4 ==
    [id |-> <<"4">>, title |-> <<"F", "r", "o", "n", "t", "e", "n", "d", " ", "D", "e", "v", "e", "l", "o", "p", "e", "r">>, company |-> <<"D", "e", "l", "t", "a">>,
     about |-> <<"D", "e", "l", "t", "a", " ", "i", "n", "c", "l", "u", "s", "i", "v", "e", " ", "s", "t", "a", "f", "f", "i", "n", "g">>, description |-> <<"B", "a", "c", "k", "E", "n", "d", " ", "5", " ", "y", "e", "a", "r", "s", " ", "M", "a", "s", "t", "e", "r">>, easy |-> FALSE]

\* postings whose description names no year count, only one above the limit of
\* the extraction, and one above and one below it
Job5 ==
    [id |-> <<"5">>, title |-> <<"R", "e", "a", "c", "t", " ", "D", "e", "v", "e", "l", "o", "p", "e", "r">>, company |-> <<"E", "p", "s", "i", "l", "o", "n">>,
     about |-> <<"E", "p", "s", "i", "l", "o", "n">>, description |-> <<"n", "o", " ", "e", "x", "p", "e", "r", "i", "e", "n", "c", "e", " ", "m", "e", "n", "t", "i", "o", "n", "e", "d">>, easy |-> FALSE]
Job6 ==
    [id |-> <<"6">>, title |-> <<"R", "e", "a", "c", "t", " ", "D", "e", "v", "e", "l", "o", "p", "e", "r">>, company |-> <<"Z", "e", "t", "a">>,
     about |-> <<"Z", "e", "t", "a">>, description |-> <<"5", "0", " ", "y", "e", "a", "r", "s">>, easy |-> FALSE]
Job7 ==
    [id |-> <<"7">>, title |-> <<"R", "e", "a", "c", "t", " ", "D", "e", "v", "e", "l", "o", "p", "e", "r">>, company |-> <<"E", "t", "a">>,
     about |-> <<"E", "t", "a">>, description |-> <<"5", "0", " ", "y", "e", "a", "r", "s", " ", "o", "r", " ", "7", " ", "y", "e", "a", "r", "s">>, easy |-> FALSE]

\* a second Easy Apply posting that passes the filters of the base configuration
Job8 ==
    [id |-> <<"8">>, title |-> <<"R", "e", "a", "c", "t", " ", "D", "e", "v", "e", "l", "o", "p", "e", "r">>, company |-> <<"T", "h", "e", "t", "a">>,
     about |-> <<"T", "h", "e", "t", "a", " ", "b", "u", "i", "l", "d", "s", " ", "a", "p", "p", "s">>, description |-> <<"R", "e", "q", "u", "i", "r", "e", "s", " ", "2", " ", "y", "e", "a", "r", "s">>, easy |-> TRUE]

Jobs == {Job1, Job2, Job3, Job4, Job5, Job6, Job7, Job8}

JobIds == {j.id : j \in Jobs}

\* a run is set in a configuration and a result set of the search: two postings
\* (one Easy Apply, one external) under the base configuration, one Easy Apply
\* posting under every operator setting, one posting under every filter setting
Scenarios ==
    ({BaseConfig} \X {{Job1, Job4}})
        \cup (UiConfigs \X {{Job1}})
        \cup (FilterConfigs \X {{Job2}, {Job3}, {Job4}})
        \cup (ExperienceConfigs \X {{Job5}, {Job6}, {Job7}})
        \cup (TabConfigs \X {{Job4}})

\* URLs the browser can show in the tab opened by the external apply button
ExternalLinks == {<<"h", "t", "t", "p", "s", ":", "/", "/", "x", ".", "i", "o", "/", "a", "p", "p", "l", "y">>, <<"h", "t", "t", "p", "s", ":", "/", "/", "x", ".", "i", "o", "/", "j", "o", "b", "s", "/", "2">>, <<>>}

\* texts of unexpected exceptions raised by the browser layer
ErrorTexts == {<<"M", "e", "s", "s", "a", "g", "e", ":", " ", "n", "o", " ", "s", "u", "c", "h", " ", "e", "l", "e", "m", "e", "n", "t">>}

\* document produced by the resume rewriter
RewrittenResume == <<"o", "u", "t", "p", "u", "t", "s", "/", "r", "e", "s", "u", "m", "e", "s", "/", "t", "a", "i", "l", "o", "r", "e", "d", ".", "p", "d", "f">>

VARIABLES
    cfg,                    \* the configuration modules
    postings,               \* the result set the site returns for the search
    success_csv,            \* outputs/logs/success.csv
    failure_csv,            \* outputs/logs/failure.csv
    applied_jobs,           \* LinkedInApplier.applied_jobs
    rejected_jobs,          \* LinkedInApplier.rejected_jobs
    blacklisted_companies,  \* LinkedInApplier.blacklisted_companies
    stats,                  \* LinkedInApplier.stats
    pause_before_submit,    \* LinkedInApplier.pause_before_submit
    use_new_resume,         \* LinkedInApplier.use_new_resume
    phase,                  \* position of run(): "running" or "ended"
    run_no,                 \* number of the process (1 = first start)
    form,                   \* the Easy Apply modal of one application, page by page
    ctl,                    \* control flow of main(), run() and the page scan
    submissions,            \* applications the outside world received, in order
    last                    \* the most recent call of _process_single_job

vars == <<cfg, postings, success_csv, failure_csv, applied_jobs, rejected_jobs, blacklisted_companies,
          stats, pause_before_submit, use_new_resume, phase, run_no, form, ctl, submissions, last>>

\* ------------------------------------------------------------------------
\* Ledger (modules/logger.py) and its reload
\* ------------------------------------------------------------------------
NoFile == [exists |-> FALSE, lines |-> <<>>]

\* AutomationLogger._write_row: header first when the file does not exist
WriteRow(file, row) ==
    [exists |-> TRUE,
     lines |-> (IF file.exists THEN file.lines ELSE <<HeaderRow>>) \o <<row>>]

OrEmpty(value) == IF value = None THEN <<>> ELSE value

SuccessRow(job_title, company, job_url, resume_path) ==
    <<UtcNow, job_title, company, job_url, <<"T", "r", "u", "e">>, OrEmpty(resume_path), <<>>>>

FailureRow(job_title, company, job_url, error_message, resume_path) ==
    <<UtcNow, job_title, company, job_url, <<"F", "a", "l", "s", "e">>, OrEmpty(resume_path), error_message>>

log_success(file, job_title, company, job_url, resume_path) ==
    WriteRow(file, SuccessRow(job_title, company, job_url, resume_path))

log_failure(file, job_title, company, job_url, error_message, resume_path) ==
    WriteRow(file, FailureRow(job_title, company, job_url, error_message, resume_path))

\* the data rows of a store, as csv.DictReader yields them (first line = field names)
DataRows(file) == IF Len(file.lines) = 0 THEN <<>> ELSE Tail(file.lines)

\* row.get(key) of csv.DictReader: the column whose field name is key (the last
\* such column), None when no column has that name
DictGet(file, row, key) ==
    LET header == Head(file.lines)
        cols == {i \in 1..Len(header) : header[i] = key}
    IN IF cols = {} THEN None
       ELSE row[CHOOSE i \in cols : \A k \in cols : k <= i]

\* the identifier a stored URL yields: url.rstrip("/").split("/")[-1]
UrlJobId(url) == LastSegment(RStripSlash(url))

\* LinkedInApplier._load_previous_applications
LoadPreviousApplications(file) ==
    IF ~file.exists THEN {}
    ELSE LET rows == DataRows(file)
             urls == {DictGet(file, rows[i], JobUrlColumn) : i \in 1..Len(rows)}
         IN {UrlJobId(url) : url \in {u \in urls : u # None /\ u # <<>> /\ IsDigitStr(UrlJobId(u))}}

\* ------------------------------------------------------------------------
\* Filter chain
\* ------------------------------------------------------------------------
\* LinkedInApplier.__init__: the configured bad words without "backend"
BlacklistedWords(c) == SelectSeq(c.bad_words, LAMBDA word : Lower(word) # ExcludedBadWord)

\* LinkedInApplier.__init__: the search terms and the fixed titles, lower-cased
FrontendEquivalents(c) ==
    {Lower(c.search_terms[i]) : i \in 1..Len(c.search_terms)}
        \cup {Lower(FixedTitleTerms[i]) : i \in 1..Len(FixedTitleTerms)}

IsRelevantJobTitle(c, title) ==
    \E term \in FrontendEquivalents(c) : Contains(term, Lower(title))

\* FirstWordIn without lower-casing the configured word
FirstWordIn_CaseSensitive(words, low_text) ==
    LET hits == {i \in 1..Len(words) : Contains(words[i], low_text)}
    IN IF hits = {} THEN 0 ELSE CHOOSE i \in hits : \A k \in hits : i <= k

\* `for word in words: if word.lower() in text`: index of the first word of the
\* list that occurs in the lower-cased text, 0 if none
FirstWordIn(words, low_text) ==
    LET hits == {i \in 1..Len(words) : Contains(Lower(words[i]), low_text)}
    IN IF hits = {} THEN 0 ELSE CHOOSE i \in hits : \A k \in hits : i <= k

\* RejectedSkip that forgets the postings rejected earlier in the run
RejectedSkip_Never(company_skip, job_id, rejected) == FALSE

\* get_job_main_details, lines 262-264: the card of a posting rejected earlier in
\* this run is skipped (the elif of the company test)
RejectedSkip(company_skip, job_id, rejected) == ~company_skip /\ job_id \in rejected

\* get_job_main_details: the checks made on the listing card.
\* card = "stale": the card reference is stale when it is read;
\* card = "error": the click that opens the posting fails;
\* footer_applied: the card carries the site's "Applied" mark.
GetJobMainDetails(job, card, footer_applied, blacklisted, rejected) ==
    LET company_skip == job.company \in blacklisted
        rejected_skip == RejectedSkip(company_skip, job.id, rejected)
        footer_skip == footer_applied
        skip == company_skip \/ rejected_skip \/ footer_skip
    IN [raised |-> IF card = "stale" THEN "stale"
                   ELSE IF ~skip /\ card = "error" THEN "error"
                   ELSE "none",
        skip |-> skip,
        evaluated |-> <<"company_blacklist">>
                        \o (IF company_skip THEN <<>> ELSE <<"rejected">>)
                        \o <<"card_applied">>,
        rule |-> IF company_skip THEN "company_blacklist"
                 ELSE IF rejected_skip \/ footer_skip THEN "duplicate"
                 ELSE "none"]

\* BadWordsChecked that scans the bad words even after a good word
BadWordsChecked_Always(good) == TRUE

\* check_blacklist, lines 309-316: the bad words are scanned only when no good
\* word was found (good is the index of the first good word found, 0 if none)
BadWordsChecked(good) == good = 0

\* check_blacklist: the scan of the about-company text; about_found is whether
\* the about-company container is on the page
CheckBlacklist(c, job, about_found) ==
    LET text == Lower(job.about)
        good == FirstWordIn(c.about_company_good_words, text)
        bad == FirstWordIn(c.about_company_bad_words, text)
    IN IF ~about_found THEN [raised |-> TRUE, skip |-> FALSE, bad_word |-> None]
       ELSE IF BadWordsChecked(good) /\ bad > 0
            THEN [raised |-> FALSE, skip |-> TRUE, bad_word |-> c.about_company_bad_words[bad]]
       ELSE [raised |-> FALSE, skip |-> FALSE, bad_word |-> None]

\* ClearanceTested that forgets the `not skip` guard
ClearanceTested_IgnoresSkip(skip, c) == ~c.security_clearance

\* get_job_description, line 370: the clearance rule runs only when nothing
\* skipped the posting yet and clearance jobs are not permitted
ClearanceTested(skip, c) == ~skip /\ ~c.security_clearance

\* ExperienceTested that takes the "no limit" value -1 for a limit
ExperienceTested_NoSentinel(skip, c) == ~skip

\* get_job_description, lines 381-385: the experience rule runs only when nothing
\* skipped the posting yet and a limit is configured
ExperienceTested(skip, c) == ~skip /\ c.current_experience > -1

\* get_job_description: fetch of the description and the three description
\* rules; a later rule that fires overwrites the reason of an earlier one.
\* desc_found is whether the description container is on the page;
\* experience_required is -1 for "Unknown".
DescriptionRules(c, job, desc_found, low, words, bw, ex) ==
    LET bad_skip == bw > 0
        clearance_tested == ClearanceTested(bad_skip, c)
        clearance_skip ==
            clearance_tested /\ \E i \in 1..Len(ClearanceTerms) : Contains(ClearanceTerms[i], low)
        skip2 == bad_skip \/ clearance_skip
        found_masters == IF ~skip2 /\ c.did_masters /\ Contains(MasterWord, low) THEN MastersBonus ELSE 0
        exp_tested == ~ex.raised /\ ExperienceTested(skip2, c)
        exp_skip == exp_tested /\ ex.value > c.current_experience + found_masters
    IN IF ~desc_found
       THEN [description |-> UnknownText, experience_required |-> -1, skip |-> FALSE,
             rule |-> "none", reason |-> None, message |-> None, evaluated |-> <<>>]
       ELSE [description |-> job.description,
             experience_required |-> IF ex.raised THEN -1 ELSE ex.value,
             skip |-> skip2 \/ exp_skip,
             rule |-> IF exp_skip THEN "experience"
                      ELSE IF clearance_skip THEN "clearance"
                      ELSE IF bad_skip THEN "bad_word"
                      ELSE "none",
             reason |-> IF exp_skip THEN ExperienceReason
                        ELSE IF clearance_skip THEN ClearanceReason
                        ELSE IF bad_skip THEN BadWordReason
                        ELSE None,
             message |-> IF exp_skip THEN ExperienceMessage(ex.value)
                         ELSE IF clearance_skip THEN ClearanceMessage
                         ELSE IF bad_skip THEN BadWordMessage(words[bw])
                         ELSE None,
             evaluated |-> <<"bad_word">>
                             \o (IF clearance_tested THEN <<"clearance">> ELSE <<>>)
                             \o (IF exp_tested THEN <<"experience">> ELSE <<>>)]

\* get_job_description: the lower-cased description, the bad words the applier
\* passes, the first of them found, and the extracted years
GetJobDescription(c, job, desc_found) ==
    DescriptionRules(c, job, desc_found,
                     Lower(job.description),
                     BlacklistedWords(c),
                     FirstWordIn(BlacklistedWords(c), Lower(job.description)),
                     extract_years_of_experience(job.description))

\* RewriteInvoked that passes every description to the rewriter
RewriteInvoked_Always(description) == TRUE

\* _rewrite_resume, lines 290-291: the rewriter is called only with a
\* description that is not empty and not "Unknown"
RewriteInvoked(description) == ~(description = <<>> \/ description = UnknownText)

\* LinkedInApplier._rewrite_resume with ResumeRewriter.rewrite: None without a
\* description, without an API key, or when the rewriter fails
RewriteResume(c, description, outcome) ==
    IF ~RewriteInvoked(description) THEN None
    ELSE IF ~c.api_key THEN None
    ELSE IF outcome = "document" THEN RewrittenResume
    ELSE None

\* ResumeRewriter.rewrite, line 105: read_text_file opens the base resume
\* outside every try, so a file that cannot be read or decoded raises out of
\* rewrite and out of _rewrite_resume
RewriteRaises(c, description, outcome) ==
    RewriteInvoked(description) /\ c.api_key /\ outcome = "unreadable"

\* ------------------------------------------------------------------------
\* Apply attempt
\* ------------------------------------------------------------------------
JobLink(job_id) == IF job_id = <<>> THEN <<>> ELSE JobViewPrefix \o job_id

\* os.path.basename
Basename(path) == LastSegment(path)

\* WrapEasyError that drops the text of the error
WrapEasyError_NoText(inner) == EasyApplyFailedPrefix

\* _handle_easy_apply, lines 670-671: RuntimeError(f"Easy apply failed: {exc}")
WrapEasyError(inner) == EasyApplyFailedPrefix \o inner

\* _handle_external_apply, lines 601-602
WrapExternalError(inner) == ExternalFailedPrefix \o inner

\* SubmitFailed that trusts the click
SubmitFailed_Never(submitted) == FALSE

\* _handle_easy_apply, lines 666-669: a Submit click that did not happen raises
SubmitFailed(submitted) == ~submitted

\* UploadDue that attempts an upload on every page
UploadDue_Always(use_new, resume_used) == TRUE

\* _handle_easy_apply, line 643: an upload is attempted while the applier's
\* use_new_resume flag is on and the form still shows the previous resume
UploadDue(use_new, resume_used) == use_new /\ resume_used = PreviousResume

\* Discarded that never takes the operator's Discard
Discarded_Never(asked, decision) == FALSE

\* _handle_easy_apply, lines 657-663: the operator is asked only with the pause
\* on and a visible browser, and Discard raises before the Submit click
Discarded(asked, decision) == asked /\ decision = "Discard"

\* PauseAfter that keeps the pause after "Disable Pause"
PauseAfter_Keeps(pause, asked, decision) == pause

\* _handle_easy_apply, lines 664-665: "Disable Pause" turns the applier's
\* pause_before_submit flag off
PauseAfter(pause, asked, decision) ==
    IF asked /\ decision = "Disable Pause" THEN FALSE ELSE pause

\* LinkedInApplier._handle_easy_apply.
\* env.form = "error_early": an exception before the answer loop (button or modal);
\* env.form = "error_late": an exception in the answer loop, after the upload step;
\* env.form = "review": the Review affordance is reached.
\* env.decision is the operator's answer at the confirmation dialog, env.submit_ok
\* whether "Submit application" could be clicked.
HandleEasyApply(c, env, resume_path, use_new, pause) ==
    LET resume_used0 == IF resume_path = None \/ resume_path = <<>> THEN PreviousResume ELSE resume_path
        upload_tried == UploadDue(use_new, resume_used0)
        uploaded == upload_tried /\ env.upload_ok
        resume_used == IF uploaded THEN Basename(c.default_resume_path) ELSE resume_used0
        use_new1 == IF uploaded THEN FALSE ELSE use_new
        attached == IF uploaded THEN c.default_resume_path ELSE None
        asked == pause /\ ~c.headless
        discard == Discarded(asked, env.decision)
        pause1 == PauseAfter(pause, asked, env.decision)
    IN IF env.form = "error_early"
       THEN [raised |-> TRUE, error |-> WrapEasyError(env.err), inner |-> env.err,
             resume_used |-> None, use_new_resume |-> use_new, pause_before_submit |-> pause,
             submitted |-> FALSE, upload_tried |-> FALSE, attached |-> None,
             asked |-> FALSE, decision |-> "none", submit_invoked |-> FALSE]
       ELSE IF env.form = "error_late"
       THEN [raised |-> TRUE, error |-> WrapEasyError(env.err), inner |-> env.err,
             resume_used |-> None, use_new_resume |-> use_new1, pause_before_submit |-> pause,
             submitted |-> FALSE, upload_tried |-> upload_tried, attached |-> attached,
             asked |-> FALSE, decision |-> "none", submit_invoked |-> FALSE]
       ELSE IF discard
       THEN [raised |-> TRUE, error |-> WrapEasyError(DiscardedText), inner |-> DiscardedText,
             resume_used |-> None, use_new_resume |-> use_new1, pause_before_submit |-> pause,
             submitted |-> FALSE, upload_tried |-> upload_tried, attached |-> attached,
             asked |-> asked, decision |-> env.decision, submit_invoked |-> FALSE]
       ELSE IF SubmitFailed(env.submit_ok)
       THEN [raised |-> TRUE, error |-> WrapEasyError(NotClickableText), inner |-> NotClickableText,
             resume_used |-> None, use_new_resume |-> use_new1, pause_before_submit |-> pause1,
             submitted |-> FALSE, upload_tried |-> upload_tried, attached |-> attached,
             asked |-> asked, decision |-> env.decision, submit_invoked |-> TRUE]
       ELSE [raised |-> FALSE, error |-> None, inner |-> None,
             resume_used |-> resume_used, use_new_resume |-> use_new1, pause_before_submit |-> pause1,
             submitted |-> env.submit_ok, upload_tried |-> upload_tried, attached |-> attached,
             asked |-> asked, decision |-> env.decision, submit_invoked |-> TRUE]

\* TabClosed that leaves every tab open
TabClosed_Never(close_tabs, new_tab) == FALSE

\* _handle_external_apply, lines 597-598: the window in focus is closed when the
\* close_tabs setting is on and it is not the first window
TabClosed(close_tabs, new_tab) == close_tabs /\ new_tab

\* LinkedInApplier._handle_external_apply: env.new_tab is whether the apply
\* button opened a new window, env.link the URL of the last window,
\* env.external = "error" an exception on the way to it (before a window opens)
HandleExternalApply(c, env) ==
    IF env.external = "error"
    THEN [raised |-> TRUE, error |-> WrapExternalError(env.err), inner |-> env.err,
          application_link |-> None, captured |-> FALSE,
          tab_opened |-> FALSE, tab_closed |-> FALSE, focus |-> "original"]
    ELSE [raised |-> FALSE, error |-> None, inner |-> None,
          application_link |-> env.link, captured |-> TRUE,
          tab_opened |-> env.new_tab, tab_closed |-> TabClosed(c.close_tabs, env.new_tab),
          focus |-> "original"]

\* _attempt_apply, Easy Apply branch (lines 543-561) and its except block
EasyOutcome(job, resume_path, success, failure, st, easy) ==
    LET job_link == JobLink(job.id)
        gained == IF easy.resume_used = None \/ easy.resume_used = <<>> THEN resume_path ELSE easy.resume_used
    IN IF ~easy.raised
       THEN [raised |-> FALSE, error |-> None, inner |-> None,
             success |-> log_success(success, job.title, job.company, job_link, gained),
             failure |-> failure,
             stats |-> [st EXCEPT !.easy_apply_count = @ + 1],
             use_new_resume |-> easy.use_new_resume,
             pause_before_submit |-> easy.pause_before_submit,
             path |-> "easy", submitted |-> easy.submitted, captured |-> FALSE,
             asked |-> easy.asked, decision |-> easy.decision, submit_invoked |-> easy.submit_invoked,
             upload_tried |-> easy.upload_tried, attached |-> easy.attached,
             tab_opened |-> FALSE, tab_closed |-> FALSE, focus |-> "original"]
       ELSE [raised |-> TRUE, error |-> easy.error, inner |-> easy.inner,
             success |-> success,
             failure |-> log_failure(failure, job.title, job.company, job_link, easy.error, resume_path),
             stats |-> [st EXCEPT !.failed_count = @ + 1],
             use_new_resume |-> easy.use_new_resume,
             pause_before_submit |-> easy.pause_before_submit,
             path |-> "easy", submitted |-> FALSE, captured |-> FALSE,
             asked |-> easy.asked, decision |-> easy.decision, submit_invoked |-> easy.submit_invoked,
             upload_tried |-> easy.upload_tried, attached |-> easy.attached,
             tab_opened |-> FALSE, tab_closed |-> FALSE, focus |-> "original"]

\* _attempt_apply, external branch (lines 562-571) and its except block
ExternalOutcome(job, resume_path, success, failure, st, use_new, pause, ext) ==
    LET job_link == JobLink(job.id)
        ext_url == IF ext.application_link = None \/ ext.application_link = <<>>
                   THEN job_link ELSE ext.application_link
    IN IF ~ext.raised
       THEN [raised |-> FALSE, error |-> None, inner |-> None,
             success |-> log_success(success, job.title, job.company, ext_url, resume_path),
             failure |-> failure,
             stats |-> [st EXCEPT !.external_count = @ + 1],
             use_new_resume |-> use_new,
             pause_before_submit |-> pause,
             path |-> "external", submitted |-> FALSE, captured |-> ext.captured,
             asked |-> FALSE, decision |-> "none", submit_invoked |-> FALSE,
             upload_tried |-> FALSE, attached |-> None,
             tab_opened |-> ext.tab_opened, tab_closed |-> ext.tab_closed, focus |-> ext.focus]
       ELSE [raised |-> TRUE, error |-> ext.error, inner |-> ext.inner,
             success |-> success,
             failure |-> log_failure(failure, job.title, job.company, job_link, ext.error, resume_path),
             stats |-> [st EXCEPT !.failed_count = @ + 1],
             use_new_resume |-> use_new,
             pause_before_submit |-> pause,
             path |-> "external", submitted |-> FALSE, captured |-> FALSE,
             asked |-> FALSE, decision |-> "none", submit_invoked |-> FALSE,
             upload_tried |-> FALSE, attached |-> None,
             tab_opened |-> ext.tab_opened, tab_closed |-> ext.tab_closed, focus |-> ext.focus]

\* LinkedInApplier._attempt_apply: the ledger write of the attempt.
\* Returns the stores and counters after the call and whether it raised.
AttemptApply(c, job, env, resume_path, success, failure, st, use_new, pause) ==
    IF job.easy
    THEN EasyOutcome(job, resume_path, success, failure, st,
                     HandleEasyApply(c, env, resume_path, use_new, pause))
    ELSE ExternalOutcome(job, resume_path, success, failure, st, use_new, pause,
                         HandleExternalApply(c, env))

\* ------------------------------------------------------------------------
\* State machine
\* ------------------------------------------------------------------------
NoStats == [easy_apply_count |-> 0, external_count |-> 0, failed_count |-> 0, skipped_count |-> 0]

\* record of a call of _process_single_job: the rules it evaluated (in order), the
\* rule that skipped the posting, how the call ended and what the attempt did
NoCall ==
    [job_id |-> None, evaluated |-> <<>>, rule |-> "none", result |-> "none",
     path |-> "none", submitted |-> FALSE, captured |-> FALSE,
     message |-> None, error |-> None, inner |-> None, returned |-> FALSE,
     description |-> None, experience_required |-> -1, rewrite_invoked |-> FALSE,
     asked |-> FALSE, decision |-> "none", submit_invoked |-> FALSE, rewrite |-> "none",
     resume_path |-> None, upload_tried |-> FALSE, attached |-> None,
     tab_opened |-> FALSE, tab_closed |-> FALSE, focus |-> "original"]

\* what a call holds of the description before get_job_description ran
NotFetched == [description |-> None, experience_required |-> -1]

\* outcomes of the Easy Apply modal and of the operator: an exception before
\* the answer loop, one inside it, or the review step with the operator's
\* decision and the outcome of the click on "Submit application"
EasyEnvs ==
    {e \in [form : {"error_early", "error_late", "review"},
            upload_ok : BOOLEAN,
            decision : {"Submit Application", "Disable Pause", "Discard", "closed"},
            submit_ok : BOOLEAN,
            err : ErrorTexts] :
        /\ e.form = "error_early" => ~e.upload_ok
        /\ e.form # "review" => e.decision = "closed" /\ ~e.submit_ok
        /\ e.decision = "Discard" => ~e.submit_ok}

\* outcomes of the external apply path
ExternalEnvs ==
    {e \in [external : {"ok", "error"}, new_tab : BOOLEAN, link : ExternalLinks, err : ErrorTexts] :
        e.external = "error" => (e.link = <<>> /\ ~e.new_tab)}

AttemptEnvs(job) == IF job.easy THEN EasyEnvs ELSE ExternalEnvs

\* outcomes of the resume rewriter that can differ for this description
RewriteOutcomes(c, description) ==
    IF ~RewriteInvoked(description) THEN {"not_invoked"}
    ELSE IF ~c.api_key THEN {"no_credentials"}
    ELSE {"document", "no_document", "unreadable"}

LedgerRows == Len(DataRows(success_csv)) + Len(DataRows(failure_csv))

\* LinkedInApplier.__init__ in a process whose stores are success/failure
StartProcess(c, success) ==
    /\ applied_jobs' = LoadPreviousApplications(success)
    /\ rejected_jobs' = {}
    /\ blacklisted_companies' = {}
    /\ stats' = NoStats
    /\ pause_before_submit' = (IF c.run_in_background THEN FALSE ELSE c.pause_before_submit)
    /\ use_new_resume' = TRUE
    /\ phase' = "running"
    /\ last' = NoCall

\* ------------------------------------------------------------------------
\* The answer-page loop of the Easy Apply modal (_handle_easy_apply, 627-654)

\* iteration count from which the loop asks the operator for help
EscalationThreshold == 15

\* LinkedInApplier.__init__, lines 121-125: background mode switches the pause off
PauseAtFailedQuestion(setting, run_in_background) ==
    IF run_in_background THEN FALSE ELSE setting

\* _handle_easy_apply, line 636
Escalates(next_counter, pause, headless) ==
    next_counter >= EscalationThreshold /\ pause /\ ~headless

\* the answers the configuration and LinkedInApplier.__init__ provide
AnswerBook ==
    [require_visa |-> <<"N", "o">>, first_name |-> <<"A", "d", "a">>, last_name |-> <<"B", "y", "r", "o", "n">>,
     phone_number |-> <<"5", "5", "5">>, linkedIn |-> <<"i", "n", "/", "a", "d", "a">>, website |-> <<"a", "d", "a", ".", "d", "e", "v">>,
     linkedin_headline |-> <<"E", "n", "g", "i", "n", "e", "e", "r">>, current_city |-> <<>>, state |-> <<"B", "E">>,
     country |-> <<"G", "e", "r", "m", "a", "n", "y">>, zipcode |-> <<"1", "0", "1", "1", "5">>,
     notice_period_months |-> <<"1">>, notice_period_weeks |-> <<"4">>, notice_period |-> <<"3", "0">>,
     current_ctc_monthly |-> <<"5", "0", "0", "0">>, current_ctc_lakhs |-> <<"6", ".", "0">>, current_ctc |-> <<"6", "0", "0", "0", "0">>,
     desired_salary_monthly |-> <<"6", "0", "0", "0">>, desired_salary_lakhs |-> <<"7", ".", "2">>,
     desired_salary |-> <<"7", "2", "0", "0", "0">>, years_of_experience |-> <<"3">>,
     linkedin_summary |-> <<" ", "B", "u", "i", "l", "d", "s", " ", "u", "s", "e", "r", " ", "i", "n", "t", "e", "r", "f", "a", "c", "e", "s", ".", " ">>]

\* work location of the posting whose form is answered
FormWorkLocation == <<"B", "e", "r", "l", "i", "n">>

\* str.strip() for blanks
RECURSIVE Strip(_)
Strip(text) ==
    IF text = <<>> THEN <<>>
    ELSE IF Head(text) = " " THEN Strip(Tail(text))
    ELSE IF text[Len(text)] = " " THEN Strip(SubSeq(text, 1, Len(text) - 1))
    ELSE text

\* LinkedInApplier._default_answer (label is already lower-cased)
DefaultAnswer(b, label, work_location) ==
    IF Contains(<<"v", "i", "s", "a">>, label) THEN b.require_visa
    ELSE IF Contains(<<"f", "i", "r", "s", "t", " ", "n", "a", "m", "e">>, label) THEN b.first_name
    ELSE IF Contains(<<"l", "a", "s", "t", " ", "n", "a", "m", "e">>, label) THEN b.last_name
    ELSE IF Contains(<<"p", "h", "o", "n", "e">>, label) THEN b.phone_number
    ELSE IF Contains(<<"l", "i", "n", "k", "e", "d", "i", "n">>, label) THEN b.linkedIn
    ELSE IF Contains(<<"w", "e", "b", "s", "i", "t", "e">>, label) \/ Contains(<<"p", "o", "r", "t", "f", "o", "l", "i", "o">>, label) THEN b.website
    ELSE IF Contains(<<"h", "e", "a", "d", "l", "i", "n", "e">>, label) THEN b.linkedin_headline
    ELSE IF Contains(<<"c", "i", "t", "y">>, label)
         THEN (IF b.current_city # <<>> THEN b.current_city ELSE work_location)
    ELSE IF Contains(<<"s", "t", "a", "t", "e">>, label) THEN b.state
    ELSE IF Contains(<<"c", "o", "u", "n", "t", "r", "y">>, label) THEN b.country
    ELSE IF Contains(<<"z", "i", "p", "c", "o", "d", "e">>, label) \/ Contains(<<"p", "o", "s", "t", "a", "l">>, label) THEN b.zipcode
    ELSE IF Contains(<<"n", "o", "t", "i", "c", "e">>, label) /\ Contains(<<"m", "o", "n", "t", "h">>, label) THEN b.notice_period_months
    ELSE IF Contains(<<"n", "o", "t", "i", "c", "e">>, label) /\ Contains(<<"w", "e", "e", "k">>, label) THEN b.notice_period_weeks
    ELSE IF Contains(<<"n", "o", "t", "i", "c", "e">>, label) THEN b.notice_period
    ELSE IF Contains(<<"s", "a", "l", "a", "r", "y">>, label) \/ Contains(<<"c", "o", "m", "p", "e", "n", "s", "a", "t", "i", "o", "n">>, label)
         THEN (IF Contains(<<"c", "u", "r", "r", "e", "n", "t">>, label)
               THEN (IF Contains(<<"m", "o", "n", "t", "h">>, label) THEN b.current_ctc_monthly
                     ELSE IF Contains(<<"l", "a", "k", "h">>, label) THEN b.current_ctc_lakhs
                     ELSE b.current_ctc)
               ELSE IF Contains(<<"m", "o", "n", "t", "h">>, label) THEN b.desired_salary_monthly
               ELSE IF Contains(<<"l", "a", "k", "h">>, label) THEN b.desired_salary_lakhs
               ELSE b.desired_salary)
    ELSE IF Contains(<<"e", "x", "p", "e", "r", "i", "e", "n", "c", "e">>, label) /\ Contains(<<"y", "e", "a", "r">>, label) THEN b.years_of_experience
    ELSE <<"Y", "e", "s">>

\* _answer_questions, lines 690-713: what is entered into one form element
\* (None = nothing): a dropdown is only noted in questions_list
AnswerField(b, field, work_location) ==
    IF field.kind = "select" THEN None
    ELSE IF field.kind = "text" THEN DefaultAnswer(b, Lower(field.label), work_location)
    ELSE IF field.kind = "textarea" THEN Strip(b.linkedin_summary)
    ELSE None

\* LinkedInApplier._answer_questions: the answers entered on one page, in the
\* order of its form elements
AnswerQuestions(b, fields, work_location) ==
    [i \in 1..Len(fields) |-> AnswerField(b, fields[i], work_location)]

\* form elements a page of the modal can show; kind "other" is an element
\* with none of the three controls
PageFields ==
    {<<>>,
     <<[kind |-> "text", label |-> <<"F", "i", "r", "s", "t", " ", "n", "a", "m", "e">>]>>,
     <<[kind |-> "select", label |-> <<"C", "o", "u", "n", "t", "r", "y">>]>>,
     <<[kind |-> "textarea", label |-> <<"S", "u", "m", "m", "a", "r", "y">>], [kind |-> "text", label |-> <<"C", "i", "t", "y">>]>>,
     <<[kind |-> "text", label |-> <<"C", "u", "r", "r", "e", "n", "t", " ", "s", "a", "l", "a", "r", "y", " ", "p", "e", "r", " ", "m", "o", "n", "t", "h">>], [kind |-> "other", label |-> <<"N", "o", "t", "e">>]>>}

\* before main() starts
NoCtl ==
    [pc |-> "none", loop |-> 0, run_non_stop |-> FALSE, cycle_date_posted |-> FALSE,
     alternate_sortby |-> FALSE, date_posted |-> <<>>, sort_by |-> <<>>,
     terms |-> 0, pages |-> 0, cards |-> 0, switch_number |-> 0,
     run_index |-> 0, term |-> 0, page |-> 0, index |-> 0, current_count |-> 0, passes |-> 0,
     driver |-> FALSE, stop_requested |-> FALSE, pending |-> "none", exit_code |-> -1,
     stale_retries |-> 0, listing |-> 0, ran |-> FALSE, summarized |-> FALSE, released |-> FALSE,
     released_by_handler |-> FALSE, fatal |-> FALSE, started_after_fatal |-> FALSE]

\* no modal is open
NoForm ==
    [pc |-> "none", pause_at_failed_question |-> FALSE, headless |-> FALSE, stuck |-> FALSE,
     resume_path |-> None, use_new_resume |-> FALSE, flag_at_open |-> FALSE,
     resume_used |-> None, next_counter |-> 0, iterations |-> 0, escalations |-> 0,
     upload_attempts |-> 0, uploaded |-> FALSE, fields |-> <<>>, entered |-> <<>>,
     modal_page |-> 0, answered_pages |-> {}, shown |-> "none",
     asked |-> FALSE, decision |-> "none", submit_invoked |-> FALSE]

\* the modal before the Easy Apply button is clicked, under every pause and
\* browser setting; stuck = "Next" never disappears and "Review" never appears;
\* resume_path is what rewrite_resume returned, use_new_resume what earlier
\* applications of the process left
ClosedForms ==
    {[NoForm EXCEPT !.pc = "closed",
                    !.pause_at_failed_question = PauseAtFailedQuestion(f.setting, f.run_in_background),
                    !.headless = f.headless, !.stuck = f.stuck,
                    !.resume_path = f.resume_path,
                    !.use_new_resume = f.use_new_resume, !.flag_at_open = f.use_new_resume] :
        f \in [setting : BOOLEAN, run_in_background : BOOLEAN, headless : BOOLEAN, stuck : BOOLEAN,
               resume_path : {None, RewrittenResume}, use_new_resume : BOOLEAN]}

\* _handle_easy_apply, lines 627-633: the modal opens on its first page and
\* "Next" is clicked at once when the page offers it (line 629); first_next is
\* whether that click took the modal to its second page
OpenForm(first_next) ==
    /\ UNCHANGED ctl
    /\ form.pc = "closed"
    /\ form.stuck => ~first_next
    /\ form' = [form EXCEPT !.pc = "page",
                            !.modal_page = IF first_next THEN 2 ELSE 1,
                            !.resume_used = IF form.resume_path = None \/ form.resume_path = <<>>
                                            THEN PreviousResume ELSE form.resume_path,
                            !.next_counter = 0]
    /\ UNCHANGED <<cfg, postings, success_csv, failure_csv, applied_jobs, rejected_jobs, blacklisted_companies,
                   stats, pause_before_submit, use_new_resume, phase, run_no, submissions, last>>

\* PageOutcome that takes a page without "Next" for the end of the loop
PageOutcome_EndsWithoutNext(page) ==
    CASE page \in {"review", "neither"} -> "review"
      [] page = "next" -> "page"
      [] OTHER -> "failed"

\* _handle_easy_apply, lines 647-654: the loop ends when the page shows "Review";
\* otherwise "Next" is looked up and clicked, and a page without it raises
\* NoSuchElementException, which ends the attempt
PageOutcome(page) ==
    CASE page = "review" -> "review"
      [] page = "next" -> "page"
      [] OTHER -> "failed"

\* one pass of the while loop, lines 634-654: page is what the modal shows
\* after the questions ("review", "next", "neither" of the two, or "error" for
\* another exception of the browser layer), upload_ok the outcome of
\* _upload_resume (673-678)
AnswerPage(page, upload_ok, fields) ==
    /\ UNCHANGED ctl
    /\ form.pc = "page"
    /\ form.iterations < MaxPages
    /\ form.stuck => page = "next"
    /\ \E counted \in {form.next_counter + 1} :
       \E escalates \in {Escalates(counted, form.pause_at_failed_question, form.headless)} :
       \E due \in {UploadDue(form.use_new_resume, form.resume_used)} :
          /\ upload_ok => due
          /\ form' = [form EXCEPT
                         !.pc = PageOutcome(page),
                         !.next_counter = IF escalates THEN 1 ELSE counted,
                         !.iterations = @ + 1,
                         !.answered_pages = @ \cup {form.modal_page},
                         !.modal_page = IF page = "next" /\ ~form.stuck THEN @ + 1 ELSE @,
                         !.shown = page,
                         !.fields = fields,
                         !.entered = AnswerQuestions(AnswerBook, fields, FormWorkLocation),
                         !.escalations = IF escalates THEN @ + 1 ELSE @,
                         !.upload_attempts = IF due THEN @ + 1 ELSE @,
                         !.uploaded = @ \/ (due /\ upload_ok),
                         !.resume_used = IF due /\ upload_ok
                                         THEN Basename(cfg.default_resume_path) ELSE @,
                         !.use_new_resume = IF due /\ upload_ok THEN FALSE ELSE @]
    /\ UNCHANGED <<cfg, postings, success_csv, failure_csv, applied_jobs, rejected_jobs, blacklisted_companies,
                   stats, pause_before_submit, use_new_resume, phase, run_no, submissions, last>>

\* _handle_easy_apply, lines 656-669: the step after the loop. decision is the
\* operator's answer when the confirmation is shown, submit_ok whether
\* "Submit application" could be clicked
SubmitStep(decision, submit_ok) ==
    /\ UNCHANGED ctl
    /\ form.pc = "review"
    /\ \E asked \in {pause_before_submit /\ ~form.headless} :
          /\ ~asked => decision = "closed"
          /\ form' = [form EXCEPT
                         !.pc = IF Discarded(asked, decision) THEN "discarded"
                                ELSE IF SubmitFailed(submit_ok) THEN "failed"
                                ELSE "submitted",
                         !.asked = asked,
                         !.decision = decision,
                         !.submit_invoked = ~Discarded(asked, decision)]
          /\ pause_before_submit' = PauseAfter(pause_before_submit, asked, decision)
    /\ UNCHANGED <<cfg, postings, success_csv, failure_csv, applied_jobs, rejected_jobs, blacklisted_companies,
                   stats, use_new_resume, phase, run_no, submissions, last>>

\* one application form under the base configuration; the pause flag of the
\* applier is what the configuration and earlier applications left
FormInit ==
    /\ cfg = BaseConfig /\ postings = {Job1}
    /\ success_csv = NoFile
    /\ failure_csv = NoFile
    /\ applied_jobs = LoadPreviousApplications(NoFile)
    /\ rejected_jobs = {}
    /\ blacklisted_companies = {}
    /\ stats = NoStats
    /\ pause_before_submit \in BOOLEAN
    /\ use_new_resume = TRUE
    /\ phase = "running"
    /\ run_no = 1
    /\ form \in ClosedForms
    /\ ctl = NoCtl
    /\ submissions = <<>>
    /\ last = NoCall

FormNext ==
    \/ \E first_next \in BOOLEAN : OpenForm(first_next)
    \/ \E page \in {"review", "next", "neither", "error"}, upload_ok \in BOOLEAN, fields \in PageFields :
          AnswerPage(page, upload_ok, fields)
    \/ \E decision \in {"Submit Application", "Disable Pause", "Discard", "closed"}, submit_ok \in BOOLEAN :
          SubmitStep(decision, submit_ok)

FormSpec == FormInit /\ [][FormNext]_vars

\* ------------------------------------------------------------------------
\* Control flow: runAiBot.main, LinkedInApplier.run, _process_search_terms and
\* _iterate_job_pages, with the outcome of each call they make as an input
\* ------------------------------------------------------------------------
\* the fixed cycle of run(), line 316
DateOptions == <<<<"A", "n", "y", " ", "t", "i", "m", "e">>, <<"P", "a", "s", "t", " ", "m", "o", "n", "t", "h">>, <<"P", "a", "s", "t", " ", "w", "e", "e", "k">>, <<"P", "a", "s", "t", " ", "2", "4", " ", "h", "o", "u", "r", "s">>>>

\* check_string(date_posted, ...) and check_string(sort_by, ...) of validate_search
AcceptedDatePosted == {<<>>} \cup {DateOptions[i] : i \in 1..Len(DateOptions)}
MostRecent == <<"M", "o", "s", "t", " ", "r", "e", "c", "e", "n", "t">>
MostRelevant == <<"M", "o", "s", "t", " ", "r", "e", "l", "e", "v", "a", "n", "t">>
AcceptedSortBy == {<<>>, MostRecent, MostRelevant}

\* list.index: 0 stands for the ValueError of a value that is not in the list
IndexOf(options, value) ==
    IF \E i \in 1..Len(options) : options[i] = value
    THEN CHOOSE i \in 1..Len(options) : options[i] = value
    ELSE 0

\* run(), lines 317-319: options[(current_index + 1) % len(options)], with
\* positions counted from 1
NextDatePosted(date_posted) == DateOptions[(IndexOf(DateOptions, date_posted) % Len(DateOptions)) + 1]

\* run(), lines 321-325
NextSortBy(sort_by) == IF sort_by = MostRelevant THEN MostRecent ELSE MostRelevant

\* a one-shot run over a result set of `pages` pages with `cards` cards each
ScanScenarios ==
    {[NoCtl EXCEPT !.pc = "main", !.loop = s.loop, !.terms = s.terms, !.pages = s.pages,
                   !.cards = s.cards, !.switch_number = s.switch_number] :
        s \in [loop : 1..2, terms : 1..2, pages : 1..2, cards : 1..2, switch_number : 1..3]}

\* long-running mode over one page with one card, under every cycling
\* setting and every accepted date_posted and sort_by
CycleScenarios ==
    {[NoCtl EXCEPT !.pc = "main", !.loop = 1, !.terms = 1, !.pages = 1, !.cards = 1,
                   !.switch_number = 1, !.run_non_stop = TRUE,
                   !.cycle_date_posted = s.cycle_date_posted,
                   !.alternate_sortby = s.alternate_sortby,
                   !.date_posted = s.date_posted, !.sort_by = s.sort_by] :
        s \in [cycle_date_posted : BOOLEAN, alternate_sortby : BOOLEAN,
               date_posted : AcceptedDatePosted, sort_by : AcceptedSortBy]}

\* the variables of the application pipeline, which the control flow leaves alone
PipelineUnchanged ==
    UNCHANGED <<cfg, postings, success_csv, failure_csv, applied_jobs, rejected_jobs, blacklisted_companies,
                stats, pause_before_submit, use_new_resume, phase, run_no, form, submissions, last>>

\* run(), lines 328-331: KeyboardInterrupt and the Selenium exceptions are
\* caught and run() returns; anything else goes on unwinding after the finally
PendingAfter(kind) == IF kind = "fatal" THEN "none" ELSE kind

\* an exception of the given kind leaves the try block of run()
Unwind(kind) ==
    [ctl EXCEPT !.pc = "finally", !.pending = PendingAfter(kind),
                !.fatal = @ \/ kind = "fatal"]

\* main(), lines 108-112: the next cycle of the --loop option starts
StartRun ==
    /\ ctl.pc = "main"
    /\ ctl.run_index < ctl.loop
    /\ ~ctl.stop_requested
    /\ ctl' = [ctl EXCEPT !.pc = "login", !.ran = TRUE, !.summarized = FALSE, !.released = FALSE,
                          !.started_after_fatal = @ \/ ctl.fatal]
    /\ PipelineUnchanged

\* main(), lines 114-118 and 121-123: the loop is over and the process ends
ExitMain ==
    /\ ctl.pc = "main"
    /\ ctl.run_index >= ctl.loop \/ ctl.stop_requested
    /\ ctl' = [ctl EXCEPT !.pc = "exited", !.exit_code = 0]
    /\ PipelineUnchanged

\* run(), line 312: launch_and_login
Login(outcome) ==
    /\ ctl.pc = "login"
    /\ ctl' = IF outcome = "ok"
              THEN [ctl EXCEPT !.pc = "terms", !.driver = TRUE, !.term = 0]
              ELSE Unwind(outcome)
    /\ PipelineUnchanged

\* _process_search_terms, lines 338-346: the next term, or the end of the pass
NextTerm ==
    /\ ctl.pc = "terms"
    /\ ctl' = IF ctl.term < ctl.terms
              THEN [ctl EXCEPT !.pc = "page", !.term = @ + 1, !.page = 1, !.current_count = 0]
              ELSE IF ctl.run_non_stop
              THEN [ctl EXCEPT !.pc = "cycle"]
              ELSE [ctl EXCEPT !.pc = "finally"]
    /\ PipelineUnchanged

\* _iterate_job_pages, lines 350-356: the head of the page loop
ReadPage(outcome) ==
    /\ ctl.pc = "page"
    /\ ctl' = IF ctl.current_count >= ctl.switch_number
              THEN [ctl EXCEPT !.pc = "terms"]
              ELSE IF outcome = "cards"
              THEN [ctl EXCEPT !.pc = "card", !.index = 0, !.stale_retries = 0]
              ELSE Unwind("fatal")
    /\ PipelineUnchanged

\* _iterate_job_pages, lines 357-376: one pass of the card loop; outcome is
\* what _process_single_job did, refetched_empty whether the list read after a
\* stale card is empty; listing tells the list read after a stale card from
\* the one before it, stale_retries counts the stale accesses in a row (it
\* stops counting at MaxStale)
ProcessCard(outcome, refetched_empty) ==
    /\ ctl.pc = "card"
    /\ ctl' = IF ctl.index >= ctl.cards \/ ctl.current_count >= ctl.switch_number
              THEN [ctl EXCEPT !.pc = "paginate"]
              ELSE CASE outcome = "applied" ->
                          [ctl EXCEPT !.current_count = @ + 1, !.index = @ + 1,
                                      !.stale_retries = 0]
                     [] outcome = "not_applied" ->
                          [ctl EXCEPT !.index = @ + 1, !.stale_retries = 0]
                     [] outcome = "stale" ->
                          IF refetched_empty
                          THEN [ctl EXCEPT !.pc = "paginate"]
                          ELSE [ctl EXCEPT !.stale_retries = IF @ < MaxStale THEN @ + 1 ELSE @,
                                           !.listing = 1 - @]
                     [] OTHER -> Unwind(outcome)
    /\ PipelineUnchanged

\* _iterate_job_pages, lines 378-393: the control for page + 1
Paginate(pagination) ==
    /\ ctl.pc = "paginate"
    /\ ctl' = IF pagination = "missing" THEN [ctl EXCEPT !.pc = "terms"]
              ELSE IF ctl.page < ctl.pages THEN [ctl EXCEPT !.pc = "page", !.page = @ + 1]
              ELSE [ctl EXCEPT !.pc = "terms"]
    /\ PipelineUnchanged

\* run(), lines 314-327: one more pass in long-running mode
CyclePass ==
    /\ ctl.pc = "cycle"
    /\ ctl.passes < MaxPasses
    /\ ctl' = IF ctl.cycle_date_posted /\ IndexOf(DateOptions, ctl.date_posted) = 0
              THEN Unwind("error")
              ELSE [ctl EXCEPT !.pc = "terms", !.term = 0, !.passes = @ + 1,
                               !.date_posted = IF ctl.cycle_date_posted
                                               THEN NextDatePosted(@) ELSE @,
                               !.sort_by = IF ctl.alternate_sortby THEN NextSortBy(@) ELSE @]
    /\ PipelineUnchanged

\* run(), line 333: the summary step of the finally block
Summarize ==
    /\ ctl.pc = "finally"
    /\ ctl' = [ctl EXCEPT !.pc = "close", !.summarized = TRUE]
    /\ PipelineUnchanged

\* DriverAfterClose that leaves the driver in the controller
DriverAfterClose_Keeps(driver) == driver

\* BrowserController.close, lines 224-232: quit() and `self.driver = None`
DriverAfterClose(driver) == FALSE

\* run(), line 334, and what follows the finally block: run() returns to
\* main(), or the pending exception ends the process (SystemExit of the signal
\* handler with code 0, main's top-level guard with code 1)
Close ==
    /\ ctl.pc = "close"
    /\ ctl' = [ctl EXCEPT !.driver = DriverAfterClose(@), !.released = TRUE,
                          !.pc = IF ctl.pending = "none" THEN "main" ELSE "exited",
                          !.run_index = IF ctl.pending = "none" THEN @ + 1 ELSE @,
                          !.exit_code = CASE ctl.pending = "none" -> @
                                          [] ctl.pending = "exit" -> 0
                                          [] OTHER -> 1]
    /\ PipelineUnchanged

\* _signal_handler (SIGINT/SIGTERM) while main() is between two runs or
\* run() is in its try block: stop_requested, browser.close() if a driver is
\* held, sys.exit(0)
Interrupt ==
    /\ ctl.pc \in {"main", "login", "terms", "page", "card", "paginate", "cycle"}
    /\ ctl' = [ctl EXCEPT !.stop_requested = TRUE,
                          !.released_by_handler = ctl.driver,
                          !.driver = DriverAfterClose(@),
                          !.pending = IF ctl.pc = "main" THEN @ ELSE "exit",
                          !.pc = IF ctl.pc = "main" THEN "exited" ELSE "finally",
                          !.exit_code = IF ctl.pc = "main" THEN 0 ELSE @]
    /\ PipelineUnchanged

RunInit ==
    /\ cfg = BaseConfig /\ postings = {Job1}
    /\ success_csv = NoFile
    /\ failure_csv = NoFile
    /\ applied_jobs = {}
    /\ rejected_jobs = {}
    /\ blacklisted_companies = {}
    /\ stats = NoStats
    /\ pause_before_submit = cfg.pause_before_submit
    /\ use_new_resume = TRUE
    /\ phase = "running"
    /\ run_no = 1
    /\ form = NoForm
    /\ ctl \in ScanScenarios \cup CycleScenarios
    /\ submissions = <<>>
    /\ last = NoCall

RunNext ==
    \/ StartRun
    \/ ExitMain
    \/ \E outcome \in {"ok", "fatal", "error"} : Login(outcome)
    \/ NextTerm
    \/ \E outcome \in {"cards", "timeout"} : ReadPage(outcome)
    \/ \E outcome \in {"applied", "not_applied", "stale", "fatal", "error"}, refetched_empty \in BOOLEAN :
          ProcessCard(outcome, refetched_empty)
    \/ \E pagination \in {"found", "missing"} : Paginate(pagination)
    \/ CyclePass
    \/ Summarize
    \/ Close
    \/ Interrupt

\* the program goes on as long as it has a next step; the signal is the
\* environment's and need not come
RunSpec ==
    /\ RunInit
    /\ [][RunNext]_vars
    /\ WF_vars(StartRun \/ ExitMain \/ (\E outcome \in {"ok", "fatal", "error"} : Login(outcome))
                 \/ NextTerm \/ (\E outcome \in {"cards", "timeout"} : ReadPage(outcome))
                 \/ (\E outcome \in {"applied", "not_applied", "stale", "fatal", "error"},
                         refetched_empty \in BOOLEAN : ProcessCard(outcome, refetched_empty))
                 \/ (\E pagination \in {"found", "missing"} : Paginate(pagination))
                 \/ CyclePass \/ Summarize \/ Close)

\* ------------------------------------------------------------------------
\* The ledger on its own (modules/logger.py): any sequence of writes over the
\* stores a process can find at its start
\* ------------------------------------------------------------------------
\* a store that exists and has no line
EmptyFile == [exists |-> TRUE, lines |-> <<>>]

\* a store an earlier process left: header and one row
UsedFile(row) == [exists |-> TRUE, lines |-> <<HeaderRow, row>>]

\* the stores at the start of a process
InitialStores(row) == {NoFile, EmptyFile, UsedFile(row)}

\* messages of the failures that are written
LedgerMessages == {UnhandledMessage, TitleReason}

LedgerInit ==
    /\ cfg = BaseConfig /\ postings = {Job1, Job4}
    /\ success_csv \in InitialStores(SuccessRow(Job2.title, Job2.company, JobLink(Job2.id), None))
    /\ failure_csv \in InitialStores(FailureRow(Job2.title, Job2.company, JobLink(Job2.id),
                                                 UnhandledMessage, None))
    /\ applied_jobs = {}
    /\ rejected_jobs = {}
    /\ blacklisted_companies = {}
    /\ stats = NoStats
    /\ pause_before_submit = cfg.pause_before_submit
    /\ use_new_resume = TRUE
    /\ phase = "running"
    /\ run_no = 1
    /\ form = NoForm
    /\ ctl = NoCtl
    /\ submissions = <<>>
    /\ last = NoCall

\* AutomationLogger.log_success; submissions notes the call and its row
LogSuccess(job, resume_path) ==
    /\ UNCHANGED ctl
    /\ Len(submissions) < MaxLedger
    /\ success_csv' = log_success(success_csv, job.title, job.company, JobLink(job.id), resume_path)
    /\ submissions' = Append(submissions,
                             [store |-> "success",
                              row |-> SuccessRow(job.title, job.company, JobLink(job.id), resume_path)])
    /\ UNCHANGED <<cfg, postings, failure_csv, applied_jobs, rejected_jobs, blacklisted_companies,
                   stats, pause_before_submit, use_new_resume, phase, run_no, form, last>>

\* AutomationLogger.log_failure
LogFailure(job, message, resume_path) ==
    /\ UNCHANGED ctl
    /\ Len(submissions) < MaxLedger
    /\ failure_csv' = log_failure(failure_csv, job.title, job.company, JobLink(job.id), message, resume_path)
    /\ submissions' = Append(submissions,
                             [store |-> "failure",
                              row |-> FailureRow(job.title, job.company, JobLink(job.id), message,
                                                 resume_path)])
    /\ UNCHANGED <<cfg, postings, success_csv, applied_jobs, rejected_jobs, blacklisted_companies,
                   stats, pause_before_submit, use_new_resume, phase, run_no, form, last>>

LedgerNext ==
    \/ \E job \in postings, resume_path \in {None, RewrittenResume} : LogSuccess(job, resume_path)
    \/ \E job \in postings, message \in LedgerMessages, resume_path \in {None, RewrittenResume} :
          LogFailure(job, message, resume_path)

LedgerSpec == LedgerInit /\ [][LedgerNext]_vars

Init ==
    /\ \E sc \in Scenarios : cfg = sc[1] /\ postings = sc[2]
    /\ success_csv = NoFile
    /\ failure_csv = NoFile
    /\ applied_jobs = LoadPreviousApplications(NoFile)
    /\ rejected_jobs = {}
    /\ blacklisted_companies = {}
    /\ stats = NoStats
    /\ pause_before_submit = (IF cfg.run_in_background THEN FALSE ELSE cfg.pause_before_submit)
    /\ use_new_resume = TRUE
    /\ phase = "running"
    /\ run_no = 1
    /\ form = NoForm
    /\ ctl = NoCtl
    /\ submissions = <<>>
    /\ last = NoCall

\* a skip decided after the card gate: failure row, rejected set, skipped counter
SkipJob(job, rule, message, evaluated, fetched) ==
    /\ failure_csv' = log_failure(failure_csv, job.title, job.company, JobLink(job.id), message, None)
    /\ rejected_jobs' = rejected_jobs \cup {job.id}
    /\ stats' = [stats EXCEPT !.skipped_count = @ + 1]
    /\ last' = [NoCall EXCEPT !.job_id = job.id, !.evaluated = evaluated, !.rule = rule,
                              !.result = "skipped", !.message = message,
                              !.description = fetched.description,
                              !.experience_required = fetched.experience_required]
    /\ UNCHANGED <<cfg, postings, success_csv, applied_jobs, blacklisted_companies, pause_before_submit,
                   use_new_resume, phase, run_no, submissions>>

\* an exception that leaves _process_single_job and ends run() through its finally block
RaiseOut(job, evaluated) ==
    /\ phase' = "ended"
    /\ last' = [NoCall EXCEPT !.job_id = job.id, !.evaluated = evaluated, !.result = "raised"]
    /\ UNCHANGED <<cfg, postings, success_csv, failure_csv, applied_jobs, rejected_jobs, blacklisted_companies,
                   stats, pause_before_submit, use_new_resume, run_no, submissions>>

\* CaughtByProcess that lets the exception of the attempt through
CaughtByProcess_Never(raised) == FALSE

\* _process_single_job, line 505: `except Exception` around _attempt_apply
\* catches whatever the attempt raised
CaughtByProcess(raised) == raised

\* AppliedAfter that does not remember the application
AppliedAfter_Forgets(applied, job_id, raised) == applied

\* _process_single_job, lines 500-501: the identifier joins the applied set when
\* _attempt_apply returned True
AppliedAfter(applied, job_id, raised) ==
    IF raised THEN applied ELSE applied \cup {job_id}

\* the apply attempt of _process_single_job (lines 485-520)
ApplyJob(job, outcome, env, fetched, evaluated) ==
    \E resume_path \in {RewriteResume(cfg, fetched.description, outcome)} :
    \E at \in {AttemptApply(cfg, job, env, resume_path, success_csv, failure_csv, stats,
                            use_new_resume, pause_before_submit)} :
       /\ success_csv' = at.success
       /\ failure_csv' = IF CaughtByProcess(at.raised)
                         THEN log_failure(at.failure, job.title, job.company, JobLink(job.id),
                                          UnhandledMessage, resume_path)
                         ELSE at.failure
       /\ stats' = IF CaughtByProcess(at.raised) THEN [at.stats EXCEPT !.failed_count = @ + 1] ELSE at.stats
       /\ phase' = IF at.raised /\ ~CaughtByProcess(at.raised) THEN "ended" ELSE phase
       /\ applied_jobs' = AppliedAfter(applied_jobs, job.id, at.raised)
       /\ use_new_resume' = at.use_new_resume
       /\ pause_before_submit' = at.pause_before_submit
       /\ submissions' = IF at.submitted \/ at.captured
                         THEN Append(submissions, [job_id |-> job.id, path |-> at.path, run |-> run_no])
                         ELSE submissions
       /\ last' = [NoCall EXCEPT !.job_id = job.id, !.evaluated = evaluated \o <<"attempt">>,
                                 !.result = IF at.raised THEN "failed" ELSE "applied",
                                 !.path = at.path, !.submitted = at.submitted,
                                 !.captured = at.captured, !.error = at.error,
                                 !.inner = at.inner, !.returned = ~at.raised,
                                 !.description = fetched.description,
                                 !.experience_required = fetched.experience_required,
                                 !.rewrite_invoked = RewriteInvoked(fetched.description), !.rewrite = outcome,
                                 !.asked = at.asked, !.decision = at.decision, !.submit_invoked = at.submit_invoked,
                                 !.resume_path = resume_path,
                                 !.upload_tried = at.upload_tried, !.attached = at.attached,
                                 !.tab_opened = at.tab_opened, !.tab_closed = at.tab_closed,
                                 !.focus = at.focus]
       /\ UNCHANGED <<cfg, postings, rejected_jobs, blacklisted_companies, run_no>>

\* IsSkipped without the look-up in the applied set
IsSkipped_CardOnly(skip, job_id, applied) == skip

\* _process_single_job, line 404: `skip or job_id in self.applied_jobs`
IsSkipped(skip, job_id, applied) == skip \/ job_id \in applied

\* LinkedInApplier._process_single_job for one listing card
ProcessSingleJob(job) ==
    /\ phase = "running"
    /\ UNCHANGED <<form, ctl>>
    /\ \E card \in {"ok", "stale", "error"}, footer_applied \in BOOLEAN :
       \E main \in {GetJobMainDetails(job, card, footer_applied, blacklisted_companies, rejected_jobs)} :
         LET ev1 == main.evaluated \o (IF main.skip THEN <<>> ELSE <<"applied_set">>)
             title_tested == cfg.job_titles # <<>>
             ev2 == ev1 \o (IF title_tested THEN <<"title">> ELSE <<>>)
             ev3 == ev2 \o <<"about_company">>
         IN IF main.raised = "stale"
            THEN /\ last' = [NoCall EXCEPT !.job_id = job.id, !.result = "stale"]
                 /\ UNCHANGED <<cfg, postings, success_csv, failure_csv, applied_jobs, rejected_jobs,
                                blacklisted_companies, stats, pause_before_submit, use_new_resume,
                                phase, run_no, submissions>>
            ELSE IF main.raised = "error"
            THEN RaiseOut(job, main.evaluated)
            ELSE IF IsSkipped(main.skip, job.id, applied_jobs)
            THEN /\ last' = [NoCall EXCEPT !.job_id = job.id, !.evaluated = ev1,
                                           !.rule = IF main.skip THEN main.rule ELSE "duplicate",
                                           !.result = "skipped"]
                 /\ UNCHANGED <<cfg, postings, success_csv, failure_csv, applied_jobs, rejected_jobs,
                                blacklisted_companies, stats, pause_before_submit, use_new_resume,
                                phase, run_no, submissions>>
            ELSE IF title_tested /\ ~IsRelevantJobTitle(cfg, job.title)
            THEN SkipJob(job, "title", TitleReason, ev2, NotFetched)
            ELSE \E about_found \in BOOLEAN :
                 \E about \in {CheckBlacklist(cfg, job, about_found)} :
                      IF about.raised
                      THEN RaiseOut(job, ev3)
                      ELSE IF about.skip
                      THEN SkipJob(job, "about_company",
                                   AboutSkipMessage(job.company, about.bad_word), ev3, NotFetched)
                      ELSE \E desc_found \in BOOLEAN :
                           \E desc \in {GetJobDescription(cfg, job, desc_found)} :
                             LET ev4 == ev3 \o desc.evaluated
                             IN IF desc.skip
                                THEN SkipJob(job, desc.rule, desc.message, ev4, desc)
                                ELSE \E outcome \in RewriteOutcomes(cfg, desc.description),
                                        env \in AttemptEnvs(job) :
                                       IF RewriteRaises(cfg, desc.description, outcome)
                                       THEN RaiseOut(job, ev4 \o <<"rewrite">>)
                                       ELSE ApplyJob(job, outcome, env, desc, ev4)

\* run(): the scan ends (no further page or card); summary and browser.close()
EndRun ==
    /\ UNCHANGED ctl
    /\ phase = "running"
    /\ phase' = "ended"
    /\ last' = NoCall
    /\ UNCHANGED <<cfg, postings, success_csv, failure_csv, applied_jobs, rejected_jobs, blacklisted_companies,
                   stats, pause_before_submit, use_new_resume, run_no, form, submissions>>

\* a fresh process is started over the stores the earlier ones left (runAiBot.main)
Restart ==
    /\ UNCHANGED ctl
    /\ run_no < MaxRuns
    /\ run_no' = run_no + 1
    /\ StartProcess(cfg, success_csv)
    /\ UNCHANGED <<cfg, postings, success_csv, failure_csv, form, submissions>>

Next ==
    \/ \E job \in postings : LedgerRows < MaxLedger /\ ProcessSingleJob(job)
    \/ EndRun
    \/ Restart

Spec == Init /\ [][Next]_vars

\* ------------------------------------------------------------------------
\* One process over several encounters of the same postings: later pages, later
\* search terms, later passes of the long-running loop and later --loop cycles
\* all call _process_single_job on the same LinkedInApplier object
\* ------------------------------------------------------------------------

\* the operator settings that decide the dialogs, over two Easy Apply postings,
\* and the base configuration over an Easy Apply and an external posting
SessionScenarios ==
    ({c \in UiConfigs : c.api_key} \X {{Job1, Job8}})
        \cup ({BaseConfig} \X {{Job1, Job4}})

SessionInit ==
    /\ \E sc \in SessionScenarios : cfg = sc[1] /\ postings = sc[2]
    /\ success_csv = NoFile
    /\ failure_csv = NoFile
    /\ applied_jobs = LoadPreviousApplications(NoFile)
    /\ rejected_jobs = {}
    /\ blacklisted_companies = {}
    /\ stats = NoStats
    /\ pause_before_submit = (IF cfg.run_in_background THEN FALSE ELSE cfg.pause_before_submit)
    /\ use_new_resume = TRUE
    /\ phase = "running"
    /\ run_no = 1
    /\ form = NoForm
    /\ ctl = NoCtl
    /\ submissions = <<>>
    /\ last = NoCall

\* runAiBot.main, lines 107-116: the next --loop cycle calls run() again on the
\* applier of this process, whose sets, counters and flags are kept
NextCycle ==
    /\ phase = "ended"
    /\ phase' = "running"
    /\ last' = NoCall
    /\ UNCHANGED <<cfg, postings, success_csv, failure_csv, applied_jobs, rejected_jobs,
                   blacklisted_companies, stats, pause_before_submit, use_new_resume, run_no,
                   form, ctl, submissions>>

SessionNext ==
    \/ \E job \in postings : LedgerRows < MaxSessionRows /\ ProcessSingleJob(job)
    \/ EndRun
    \/ NextCycle

SessionSpec == SessionInit /\ [][SessionNext]_vars

\* ------------------------------------------------------------------------
\* Vocabulary of the properties
\* ------------------------------------------------------------------------
SuccessRows == DataRows(success_csv)
FailureRows == DataRows(failure_csv)

\* columns of a ledger row
ColTitle == 2
ColCompany == 3
ColUrl == 4
ColApplied == 5
ColError == 7
ColResume == 6

JobById(id) == CHOOSE j \in Jobs : j.id = id

\* the steps a call went through
Evaluated(call) == {call.evaluated[i] : i \in 1..Len(call.evaluated)}
Attempted(call) == "attempt" \in Evaluated(call)
DescFetched(call) == "bad_word" \in Evaluated(call)

\* the rules that follow the duplicate check, and the apply attempt
LaterSteps == {"title", "about_company", "bad_word", "clearance", "experience", "attempt"}

\* job identifiers the outside world received an application for
SubmittedIds == {submissions[i].job_id : i \in 1..Len(submissions)}

C2_ExactlyOneEntry ==
    [][Attempted(last') =>
          Len(DataRows(success_csv')) + Len(DataRows(failure_csv')) = LedgerRows + 1]_vars

\* C3: the success store holds exactly the completed submits and captures, in
\* order: one success row per application the outside world received, for that
\* posting, and a call reports success exactly when its submit or capture completed.
C3_SuccessIffSubmitted ==
    /\ Len(SuccessRows) = Len(submissions)
    /\ \A i \in 1..Len(submissions) :
          LET job == JobById(submissions[i].job_id)
          IN /\ i <= Len(SuccessRows)
             /\ SuccessRows[i][ColTitle] = job.title
             /\ SuccessRows[i][ColCompany] = job.company
             /\ SuccessRows[i][ColApplied] = <<"T", "r", "u", "e">>
             /\ SuccessRows[i][ColError] = <<>>
    /\ (last.result = "applied") = (last.submitted \/ last.captured)
    /\ (last.result = "failed") => (~last.submitted /\ ~last.captured)

\* an Easy Apply submit and an external capture both completed and were recorded
C3_Witness ==
    /\ Len(SuccessRows) = 2
    /\ \E i, k \in 1..Len(submissions) :
          submissions[i].path = "easy" /\ submissions[k].path = "external"

\* C4: no posting that an earlier process applied to is applied to again by a
\* later process started over the persisted success store.
C4_IdempotentAcrossRestart ==
    \A i, k \in 1..Len(submissions) :
        submissions[i].job_id = submissions[k].job_id => submissions[i].run = submissions[k].run

\* C5: every recorded application is recovered by reloading the success store:
\* the identifier of its posting is in the reloaded applied set.
C5_LedgerRoundTrip ==
    \A i \in 1..Len(submissions) :
        submissions[i].job_id \in LoadPreviousApplications(success_csv)

\* C6: the applied set holds an identifier only if an application of the posting
\* with that identifier was recorded before.
C6_NoFalsePositive ==
    \A id \in applied_jobs : id \in SubmittedIds

\* the failure rows a step appended
NewFailureErrors ==
    {DataRows(failure_csv')[i][ColError] :
        i \in (Len(DataRows(failure_csv)) + 1)..Len(DataRows(failure_csv'))}

\* C7 as stated: a failed attempt writes a failure row whose error_message is the
\* text of the triggering error, unchanged.
C7_ErrorTextUnchanged ==
    [][last'.result = "failed" => last'.inner \in NewFailureErrors]_vars

\* C7 as amended: a failed attempt writes a failure row whose error_message is
\* the text of the triggering error behind the prefix of the path that failed
\* ("Easy apply failed: " or "Failed to capture external application link: ").
C7_ErrorTextPrefixed ==
    [][last'.result = "failed" =>
          /\ last'.inner # None
          /\ (IF last'.path = "easy" THEN EasyApplyFailedPrefix ELSE ExternalFailedPrefix)
                \o last'.inner \in NewFailureErrors]_vars

\* the operator discarded an application at the review step and the failure was written
C7_Witness ==
    /\ last.result = "failed"
    /\ last.path = "easy"
    /\ last.inner = DiscardedText
    /\ Len(FailureRows) > 0
    /\ FailureRows[Len(FailureRows) - 1][ColError] = EasyApplyFailedPrefix \o DiscardedText

\* C8: a posting skipped by a filter rule after the duplicate check adds no row
\* to the failure store and does not count as failed.
C8_SkipIsNotFailure ==
    [][(last'.result = "skipped" /\ last'.rule \in LaterSteps) =>
          /\ failure_csv' = failure_csv
          /\ stats'.failed_count = stats.failed_count]_vars

\* ------------------------------------------------------------------------
\* Order of the filter rules
\* ------------------------------------------------------------------------
\* the rule a step of a call belongs to: the rejected set, the "Applied" mark of
\* the card and the applied set together are the duplicate rule
RuleOf(step) ==
    IF step \in {"rejected", "card_applied", "applied_set"} THEN "duplicate" ELSE step

\* the order the specification gives, and the order of the tests in the code
StatedOrder ==
    <<"duplicate", "company_blacklist", "title", "about_company", "bad_word", "clearance", "experience">>
CodeOrder ==
    <<"company_blacklist", "duplicate", "title", "about_company", "bad_word", "clearance", "experience">>

Position(order, rule) == CHOOSE i \in 1..Len(order) : order[i] = rule

\* the rule steps of a call, without the resume rewrite and the apply attempt
RuleSteps(call) == SelectSeq(call.evaluated, LAMBDA step : step \notin {"rewrite", "attempt"})

\* the rules were tested in the given order
TestedInOrder(call, order) ==
    LET steps == RuleSteps(call)
    IN \A i, k \in 1..Len(steps) :
          i < k => Position(order, RuleOf(steps[i])) <= Position(order, RuleOf(steps[k]))

\* a skipped call tested nothing after the rule that skipped it
StopsAtFailingRule(call) ==
    LET steps == RuleSteps(call)
    IN call.result = "skipped" =>
          /\ Len(steps) > 0
          /\ RuleOf(steps[Len(steps)]) = call.rule
          /\ ~Attempted(call)

\* whether a posting fails a rule, from the configuration, the sets of the run
\* and the texts of the posting (the description rules need a fetched description)
AboutFails(job) ==
    /\ ~\E i \in 1..Len(cfg.about_company_good_words) :
            Contains(Lower(cfg.about_company_good_words[i]), Lower(job.about))
    /\ \E i \in 1..Len(cfg.about_company_bad_words) :
            Contains(Lower(cfg.about_company_bad_words[i]), Lower(job.about))
BadWordFails(job) ==
    \E i \in 1..Len(cfg.bad_words) :
        /\ Lower(cfg.bad_words[i]) # ExcludedBadWord
        /\ Contains(Lower(cfg.bad_words[i]), Lower(job.description))
ClearanceFails(job) ==
    /\ ~cfg.security_clearance
    /\ \E i \in 1..Len(ClearanceTerms) : Contains(ClearanceTerms[i], Lower(job.description))
ExperienceFails(job) ==
    LET ex == extract_years_of_experience(job.description)
        bonus == IF cfg.did_masters /\ Contains(MasterWord, Lower(job.description)) THEN MastersBonus ELSE 0
    IN /\ cfg.current_experience # -1
       /\ ~ex.raised
       /\ ex.value > cfg.current_experience + bonus
Fails(rule, job, call) ==
    CASE rule = "company_blacklist" -> job.company \in blacklisted_companies
      [] rule = "duplicate" -> job.id \in rejected_jobs \cup applied_jobs
      [] rule = "title" -> cfg.job_titles # <<>> /\ ~IsRelevantJobTitle(cfg, job.title)
      [] rule = "about_company" -> AboutFails(job)
      [] rule = "bad_word" -> DescFetched(call) /\ BadWordFails(job)
      [] rule = "clearance" -> DescFetched(call) /\ ClearanceFails(job)
      [] rule = "experience" -> DescFetched(call) /\ ExperienceFails(job)

\* the call was decided by the earliest rule of the order that the posting fails:
\* a skip names a rule the posting fails and no earlier rule fails; a call that
\* reaches the apply attempt fails no rule.  (The sets are those before the call.)
DecidedByEarliest(call, order) ==
    LET job == JobById(call.job_id)
    IN /\ call.result = "skipped" =>
            /\ call.rule \in {order[i] : i \in 1..Len(order)}
            /\ (call.rule # "duplicate" => Fails(call.rule, job, call))
            /\ \A i \in 1..Len(order) :
                  i < Position(order, call.rule) => ~Fails(order[i], job, call)
       /\ Attempted(call) => \A i \in 1..Len(order) : ~Fails(order[i], job, call)

ContainsConfiguredTitle(c, title) ==
    \E i \in 1..Len(c.job_titles) : Contains(Lower(c.job_titles[i]), Lower(title))

\* C11: with job titles configured, a posting passes the title rule exactly when
\* its lower-cased title contains one of the configured titles; with none
\* configured the title rule skips nothing.
C11_ConfiguredTitleDecides ==
    last.job_id # None =>
        /\ cfg.job_titles = <<>> => last.rule # "title"
        /\ "title" \in Evaluated(last) =>
              ((last.rule # "title") <=> ContainsConfiguredTitle(cfg, JobById(last.job_id).title))

\* ------------------------------------------------------------------------
\* About-company scan
\* ------------------------------------------------------------------------
\* the step at which an exception left the call ("none" if none did)
RaisedAt(call) ==
    IF call.result = "raised" /\ Len(call.evaluated) > 0
    THEN call.evaluated[Len(call.evaluated)] ELSE "none"

\* the about-company text was read and scanned by the call
AboutScanned(call) == "about_company" \in Evaluated(call) /\ RaisedAt(call) # "about_company"

GoodWordOccurs(job) ==
    \E i \in 1..Len(cfg.about_company_good_words) :
        Contains(Lower(cfg.about_company_good_words[i]), Lower(job.about))

\* the bad words of the list that occur in the about-company text
BadWordsOccurring(job) ==
    {i \in 1..Len(cfg.about_company_bad_words) :
        Contains(Lower(cfg.about_company_bad_words[i]), Lower(job.about))}

SkippedByAbout(call) == call.result = "skipped" /\ call.rule = "about_company"

\* C12: a good word in the about-company text (in any case) keeps the posting
\* from being skipped by the about-company rule whatever bad words the text
\* holds; without a good word, a bad word in the text skips the posting and the
\* message names the matched word (the first of the list that occurs).
C12_GoodWordsWin ==
    (last.job_id # None /\ AboutScanned(last)) =>
        LET job == JobById(last.job_id)
            hits == BadWordsOccurring(job)
        IN /\ GoodWordOccurs(job) => ~SkippedByAbout(last)
           /\ (~GoodWordOccurs(job) /\ hits # {}) =>
                 /\ SkippedByAbout(last)
                 /\ last.message =
                       AboutSkipMessage(job.company,
                           cfg.about_company_bad_words[CHOOSE i \in hits : \A k \in hits : i <= k])
           /\ hits = {} => ~SkippedByAbout(last)

\* a posting whose about-company text holds a good and a bad word went on to the
\* description rules
C12_Witness ==
    /\ last.job_id = Job4.id
    /\ AboutScanned(last)
    /\ GoodWordOccurs(Job4)
    /\ BadWordsOccurring(Job4) # {}
    /\ DescFetched(last)

\* C13: a missing about-company container lets no exception leave the call: the
\* call goes on to the description step and the scan of the run continues.
C13_MissingAboutProceeds ==
    [][(last'.job_id # None /\ "about_company" \in Evaluated(last')) =>
          /\ RaisedAt(last') # "about_company"
          /\ phase' = "running"]_vars

\* ------------------------------------------------------------------------
\* Experience rule and extraction
\* ------------------------------------------------------------------------
SkippedByExperience(call) == call.result = "skipped" /\ call.rule = "experience"

\* the description was fetched and neither the bad-word nor the clearance rule
\* skipped the posting
ReachedExperience(call) ==
    /\ DescFetched(call)
    /\ ~(call.result = "skipped" /\ call.rule \in {"bad_word", "clearance"})

\* what the rule is stated to be: a limit is configured and the extracted years
\* exceed it plus 2 when a masters degree is configured and the description
\* says "master"
OverExperienced(c, description) ==
    LET required == extract_years_of_experience(description)
        bonus == IF c.did_masters /\ Contains(MasterWord, Lower(description)) THEN 2 ELSE 0
    IN /\ c.current_experience # -1
       /\ ~required.raised
       /\ required.value > c.current_experience + bonus

\* C14: when no earlier rule skipped the posting, it is skipped as
\* over-experienced exactly when a limit is configured (current experience is not
\* -1) and the extracted years exceed the limit plus the masters bonus; the
\* message names the extracted years.
C14_ExperienceRule ==
    (last.job_id # None /\ ReachedExperience(last)) =>
        LET job == JobById(last.job_id)
        IN /\ SkippedByExperience(last) <=> OverExperienced(cfg, job.description)
           /\ SkippedByExperience(last) =>
                 last.message = ExperienceMessage(extract_years_of_experience(job.description).value)

\* a description that asks for 5 years and says "master" passed the rule with 3
\* years of experience and a masters degree configured
C14_Witness ==
    /\ last.job_id = Job4.id
    /\ cfg.current_experience = 3
    /\ cfg.did_masters
    /\ extract_years_of_experience(Job4.description).value = 5
    /\ Contains(MasterWord, Lower(Job4.description))
    /\ Attempted(last)

\* C15: the years a call extracts from a fetched description are the largest
\* matched year count that is at most 40; a description without such a match
\* (no match, or only matches above 40) gives "Unknown" (-1).
C15_ExtractedYears ==
    (last.job_id # None /\ DescFetched(last)) =>
        LET usable == UsableYears(FindAllExperience(JobById(last.job_id).description, 1))
        IN last.experience_required = (IF usable = {} THEN -1 ELSE SetMax(usable))

\* the description step of the call ran and found no description on the page
DescriptionMissing(call) == call.description = UnknownText

\* C16: when the description cannot be fetched, the description is "Unknown" and
\* the required experience unknown, no description rule runs or skips the
\* posting, the resume rewriter is not called, and the apply attempt is made.
C16_UnfetchedProceeds ==
    (last.job_id # None /\ "about_company" \in Evaluated(last)
        /\ last.result \in {"skipped", "applied", "failed"}
        /\ ~SkippedByAbout(last) /\ ~DescFetched(last)) =>
        /\ DescriptionMissing(last)
        /\ last.experience_required = -1
        /\ Evaluated(last) \cap {"bad_word", "clearance", "experience"} = {}
        /\ last.result # "skipped"
        /\ ~last.rewrite_invoked
        /\ Attempted(last)

\* a posting whose description holds a bad word, but could not be fetched, was
\* applied to
C16_Witness ==
    /\ last.job_id = Job2.id
    /\ DescriptionMissing(last)
    /\ BadWordFails(Job2)
    /\ last.result = "applied"

\* the operator was shown the review dialog and chose Discard
DiscardChosen(call) == call.asked /\ call.decision = "Discard"

\* the form reached the review step of an Easy Apply posting
ReachedReview(call) ==
    /\ call.path = "easy"
    /\ (call.asked \/ call.submit_invoked)

\* C19: at the review step, a Discard by the operator means Submit is never
\* invoked, the attempt is a failure with a failure row and no new success row,
\* and the run goes on to the next posting; without Discard Submit is invoked,
\* and a Submit that is not clickable is a failure with no new success row.
C19_DiscardOrSubmit ==
    [][(last'.job_id # None /\ ReachedReview(last')) =>
          /\ DiscardChosen(last') =>
                /\ ~last'.submit_invoked
                /\ last'.result = "failed"
                /\ Len(FailureRows') > Len(FailureRows)
                /\ FailureRows'[Len(FailureRows) + 1][ColError] = EasyApplyFailedPrefix \o DiscardedText
                /\ SuccessRows' = SuccessRows
                /\ phase' = "running"
          /\ ~DiscardChosen(last') =>
                /\ last'.submit_invoked
                /\ ~last'.submitted =>
                      /\ last'.result = "failed"
                      /\ Len(FailureRows') > Len(FailureRows)
                      /\ SuccessRows' = SuccessRows]_vars

\* the operator answered the review dialog of posting 1 with Discard: Submit
\* was not invoked, the failure is in the failure ledger and the run goes on
C19_Witness ==
    /\ last.job_id = Job1.id
    /\ ReachedReview(last)
    /\ DiscardChosen(last)
    /\ ~last.submit_invoked
    /\ last.result = "failed"
    /\ Len(FailureRows) > 0
    /\ FailureRows[1][ColError] = EasyApplyFailedPrefix \o DiscardedText
    /\ SuccessRows = <<>>
    /\ phase = "running"

\* the latest call attempted a posting that has no Easy Apply button
ExternalAttempted(call) ==
    /\ call.job_id # None
    /\ ~JobById(call.job_id).easy
    /\ Attempted(call)

\* the external path ran, the page loop and the review step of the Easy Apply
\* form were never entered, and a captured URL made the attempt a success:
\* external counter +1, one new success row, no failure row, focus on the
\* first window
ExternalPathSucceeds ==
    /\ last'.path = "external"
    /\ ~last'.asked /\ ~last'.submit_invoked /\ ~last'.submitted
    /\ last'.captured =>
          /\ last'.focus = "original"
          /\ last'.result = "applied"
          /\ stats'.external_count = stats.external_count + 1
          /\ stats'.easy_apply_count = stats.easy_apply_count
          /\ Len(SuccessRows') = Len(SuccessRows) + 1
          /\ FailureRows' = FailureRows

\* C20 (as stated): without an Easy Apply button the external path runs and
\* the form is never entered; with the URL captured the extra tab is closed,
\* focus is on the original tab and the attempt is a success.
C20_ExtraTabClosed ==
    [][ExternalAttempted(last') =>
          /\ ExternalPathSucceeds
          /\ last'.captured => (last'.tab_opened => last'.tab_closed)]_vars

\* C20 (amended): as above, but the extra tab is closed exactly when the
\* close_tabs setting is on; with the setting off it stays open.
C20_ExtraTabClosedWhenConfigured ==
    [][ExternalAttempted(last') =>
          /\ ExternalPathSucceeds
          /\ last'.captured => (last'.tab_closed <=> (last'.tab_opened /\ cfg.close_tabs))]_vars

\* posting 4 opened a new tab under close_tabs, its URL was captured, the tab
\* was closed and the success row written
C20_Witness ==
    /\ last.job_id = Job4.id
    /\ cfg.close_tabs
    /\ last.path = "external"
    /\ last.captured
    /\ last.tab_opened
    /\ last.tab_closed
    /\ last.focus = "original"
    /\ last.result = "applied"
    /\ stats.external_count = 1
    /\ Len(SuccessRows) = 1

\* C17: with a "Next" that never disappears and a "Review" that never appears,
\* the answer-page loop has asked the operator for help once it has made its
\* 15th pass, whatever the pause and browser settings are.
C17_EscalatesAtThreshold ==
    (form.stuck /\ form.iterations >= EscalationThreshold) => form.escalations >= 1

\* the application started with the use_new_resume flag on and no rewritten
\* resume, and its first page has been answered
StartedWithoutResume ==
    /\ form.flag_at_open
    /\ form.resume_path = None
    /\ form.iterations >= 1

AttemptRaised(call) ==
    /\ call.job_id # None
    /\ Attempted(call)
    /\ call.error # None

\* C23: whatever exception the apply attempt of a posting raises, the call
\* ends as a failed posting without raising, a failure row with the message of
\* the exception is appended, no success row is written, and the scan stays
\* open for the next posting.
C23_AttemptFailureContained ==
    [][AttemptRaised(last') =>
          /\ last'.result = "failed"
          /\ phase' = "running"
          /\ Len(FailureRows') > Len(FailureRows)
          /\ FailureRows'[Len(FailureRows) + 1][ColError] = last'.error
          /\ stats'.failed_count > stats.failed_count
          /\ SuccessRows' = SuccessRows
          /\ applied_jobs' = applied_jobs]_vars

\* the external apply of posting 4 raised, the failure is in the ledger and
\* the scan is still running
C23_Witness ==
    /\ AttemptRaised(last)
    /\ last.job_id = Job4.id
    /\ last.path = "external"
    /\ last.error = ExternalFailedPrefix \o last.inner
    /\ last.result = "failed"
    /\ Len(FailureRows) > 0
    /\ phase = "running"

\* the resume rewriter was called for the posting of the latest call and gave
\* no document: it has no credentials, it failed, or it raised
RewriteGaveNothing(call) ==
    /\ call.job_id # None
    /\ \/ call.rewrite \in {"no_credentials", "no_document"}
       \/ RaisedAt(call) = "rewrite"

\* C29: when the resume rewriter fails or has no credentials, the posting is
\* still attempted, with no rewritten resume, and the scan stays open.
C29_RewriteFailureNotFatal ==
    [][RewriteGaveNothing(last') =>
          /\ Attempted(last')
          /\ last'.result \in {"applied", "failed"}
          /\ phase' = "running"]_vars

\* the control kinds the answering pass recognises
RecognisedKinds == {"select", "text", "textarea"}

\* C30: after an answering pass every form element of a recognised kind on the
\* page has had an answer entered.
C30_EveryFieldAnswered ==
    form.iterations >= 1 =>
       \A i \in 1..Len(form.fields) :
          form.fields[i].kind \in RecognisedKinds => form.entered[i] # None

\* the rows the calls noted in submissions wrote to one store, in call order
WrittenTo(store) ==
    LET calls == SelectSeq(submissions, LAMBDA call : call.store = store)
    IN [i \in 1..Len(calls) |-> calls[i].row]

\* a store is one header row followed by its entries
WellFormed(file, written) ==
    file.lines # <<>> =>
       /\ Head(file.lines) = HeaderRow
       /\ \A i \in 2..Len(file.lines) : file.lines[i] # HeaderRow
       /\ Len(written) < Len(file.lines)
       /\ SubSeq(file.lines, Len(file.lines) - Len(written) + 1, Len(file.lines)) = written

\* C28: after any sequence of log_success/log_failure calls each store is one
\* header row followed by the rows in call order, also when the store existed
\* with zero entries before the first write.
C28_HeaderThenRows ==
    /\ WellFormed(success_csv, WrittenTo("success"))
    /\ WellFormed(failure_csv, WrittenTo("failure"))

\* C21: a card that went stale is retried at the same index at most once; a
\* second stale access in a row is not retried again.
C21_AtMostOneRetry == ctl.stale_retries <= 1

\* the scan of one search term is under way
InScan == ctl.pc \in {"page", "card", "paginate"}

\* C22: with a finite number of pages and cards the scan of a search term
\* always comes to its end.
C22_ScanTerminates == InScan ~> ~InScan

\* C24: after a fatal browser failure reached run(), no further run cycle is
\* started and the process does not end with exit code 0.
C24_FatalEndsProcess ==
    (ctl.fatal /\ ~ctl.stop_requested) =>
       /\ ~ctl.started_after_fatal
       /\ ctl.pc = "exited" => ctl.exit_code # 0

C26_SummaryBeforeRelease == ctl.released_by_handler => ctl.summarized

\* position of a date-posted value in the fixed cycle (0 = not in it)
CyclePosition(value) == IndexOf(DateOptions, value)

\* the step is one pass decision of long-running mode, not a signal
PassStep == ctl.pc = "cycle" /\ ctl' # ctl /\ ctl'.stop_requested = ctl.stop_requested

\* C27: in long-running mode every pass moves date_posted one step forward in
\* the cycle (wrapping after the last), whatever accepted value it starts
\* from, and flips sort_by between Most recent and Most relevant.
C27_CycleAdvances ==
    [][PassStep =>
          /\ ctl'.pc = "terms"
          /\ ctl.cycle_date_posted =>
                /\ CyclePosition(ctl'.date_posted) > 0
                /\ CyclePosition(ctl.date_posted) > 0 =>
                      CyclePosition(ctl'.date_posted) = (CyclePosition(ctl.date_posted) % 4) + 1
          /\ ctl.alternate_sortby =>
                /\ ctl'.sort_by \in {MostRecent, MostRelevant}
                /\ ctl'.sort_by # ctl.sort_by]_vars

\* ------------------------------------------------------------------------
\* Claims about one process over repeated encounters (SessionSpec)
\* ------------------------------------------------------------------------

\* job identifiers whose apply attempt ended in failure in this process
FailedIds ==
    {UrlJobId(FailureRows[i][ColUrl]) :
        i \in {k \in 1..Len(FailureRows) : FailureRows[k][ColError] = UnhandledMessage}}

\* the step is a call of _process_single_job that started an apply attempt
AttemptStep == Attempted(last') /\ LedgerRows' > LedgerRows

\* C31: a failed apply attempt is not retried automatically: within one process,
\* once an attempt for a job identifier has ended in failure, no later encounter
\* of that posting starts a second apply attempt for it
C31_NoRetryAfterFailure ==
    [][AttemptStep => last'.job_id \notin FailedIds]_vars

\* ------------------------------------------------------------------------
\* Claims about the pages of the Easy Apply modal (FormSpec)
\* ------------------------------------------------------------------------

\* C32: "Next" is never activated on a modal page before the fields of that page
\* were answered: every page the modal has left, the first one included, has
\* gone through the answering step
C32_AnsweredBeforeNext ==
    \A p \in 1..(form.modal_page - 1) : p \in form.answered_pages

\* the order of the states of the form-fill machine
FormOrder ==
    {<<"closed", "page">>, <<"page", "review">>, <<"page", "failed">>,
     <<"review", "submitted">>, <<"review", "discarded">>, <<"review", "failed">>}

\* C33: the form-fill machine goes from the opened modal through the answering
\* loop to the review step and from there to Submitted, Discarded or Failed;
\* Submit is invoked only after a page showed Review, and a page that shows
\* neither Review nor Next ends the attempt as Failed
C33_ReviewBeforeSubmit ==
    [][/\ form'.pc # form.pc => <<form.pc, form'.pc>> \in FormOrder
       /\ form'.submit_invoked => form'.shown = "review"
       /\ form'.shown = "neither" => form'.pc = "failed"]_vars

\* a form of more than one page was submitted after a page showed Review
C33_Witness ==
    /\ form.pc = "submitted"
    /\ form.submit_invoked
    /\ form.shown = "review"
    /\ form.iterations >= 2

\* the step is a call of _process_single_job that reached an Easy Apply attempt
EasyAttemptStep == AttemptStep /\ last'.path = "easy"

\* C34: after the operator answered "Disable Pause" the current application goes
\* on to Submit and the pause is off for every later application of the process;
\* with a headless UI or run_in_background neither the confirmation nor the
\* failed-question dialog is shown
C34_PauseDisabledForGood ==
    [][/\ (EasyAttemptStep /\ last'.asked /\ last'.decision = "Disable Pause") =>
             /\ last'.submit_invoked
             /\ ~pause_before_submit'
             /\ last'.submitted <=> last'.result = "applied"
       /\ ~pause_before_submit => (~pause_before_submit' /\ (AttemptStep => ~last'.asked))
       /\ (cfg.headless \/ cfg.run_in_background) =>
             /\ AttemptStep => ~last'.asked
             /\ \A n \in 1..(MaxPages + 1), setting \in BOOLEAN :
                   ~Escalates(n, PauseAtFailedQuestion(setting, cfg.run_in_background), cfg.headless)]_vars

\* the pause the configuration asks for was switched off by the operator and a
\* later application was submitted without the confirmation
C34_Witness ==
    /\ cfg.pause_before_submit /\ ~cfg.run_in_background /\ ~cfg.headless
    /\ ~pause_before_submit
    /\ Len(SuccessRows) = 2
    /\ last.result = "applied" /\ last.path = "easy"
    /\ last.submit_invoked /\ ~last.asked

\* ------------------------------------------------------------------------
\* Claims about the sets and counters of the applier (Spec)
\* ------------------------------------------------------------------------

\* C35: a posting skipped because the about-text of its company contains a
\* configured bad word leaves that company in the blacklisted-company set of the
\* run, so that later postings of the company are skipped on the listing card
C35_CompanyRemembered ==
    SkippedByAbout(last) => JobById(last.job_id).company \in blacklisted_companies

\* C36: the failed counter counts the apply attempts that ended in failure: a
\* call whose attempt failed raises failed_count by exactly one, and no other
\* call changes it
C36_FailedCountExact ==
    [][run_no' = run_no =>
          stats'.failed_count =
              stats.failed_count + (IF AttemptStep /\ last'.result = "failed" THEN 1 ELSE 0)]_vars

\* the step is a call of _process_single_job that ran to its return
CallReturned == last'.result \in {"skipped", "applied", "failed"}

\* the sets, counters and stores a call can write
Records == <<success_csv, failure_csv, stats, applied_jobs, rejected_jobs, blacklisted_companies, submissions>>

\* C37: a call for a posting that is a duplicate (identifier in the applied set or
\* in the rejected set of the run, or card marked Applied) ends as a skip that
\* writes no ledger entry and changes no counter and none of the three sets
C37_DuplicateSkipIsSilent ==
    [][(/\ CallReturned
        /\ \/ last'.job_id \in applied_jobs \cup rejected_jobs
           \/ (last'.result = "skipped" /\ last'.rule = "duplicate")) =>
          /\ last'.result = "skipped"
          /\ last'.rule = "duplicate"
          /\ UNCHANGED Records]_vars

\* a posting rejected earlier in the run was met again and skipped as a duplicate
C37_Witness ==
    /\ last.result = "skipped" /\ last.rule = "duplicate"
    /\ last.job_id \in rejected_jobs
    /\ Len(FailureRows) = 1
    /\ stats.skipped_count = 1

\* C38: within one process the success store gets at most one entry per job
\* identifier: a success entry is written only for an identifier that is not in
\* the applied set, the identifier is in the set when the call returns, the set
\* never loses an identifier, and no two applications of the process are for
\* the same identifier
C38_OneSuccessPerJob ==
    [][/\ applied_jobs \subseteq applied_jobs'
       /\ Len(SuccessRows') > Len(SuccessRows) =>
             /\ Len(SuccessRows') = Len(SuccessRows) + 1
             /\ last'.job_id \notin applied_jobs
             /\ last'.job_id \in applied_jobs'
       /\ Len(SuccessRows') = Len(submissions')
       /\ \A i, j \in 1..Len(submissions') :
             i # j => submissions'[i].job_id # submissions'[j].job_id]_vars

\* after its success the posting was met again in the same process and skipped,
\* with one success entry in the store
C38_Witness ==
    /\ run_no = 1
    /\ Len(SuccessRows) = 1
    /\ SubmittedIds = {last.job_id}
    /\ last.result = "skipped" /\ last.rule = "duplicate"
    /\ last.job_id \in applied_jobs /\ last.job_id \notin rejected_jobs

\* the call had no rewritten resume to offer
NoRewrittenResume(call) == call.resume_path = None \/ call.resume_path = <<>>

\* C39: the upload decision is made per application: every first Easy Apply
\* application of a posting that reaches its review step without a rewritten
\* resume has tried the upload, whatever earlier applications of the process
\* uploaded
C39_UploadPerApplication ==
    [][(/\ EasyAttemptStep
        /\ last'.job_id \notin FailedIds
        /\ ReachedReview(last')
        /\ NoRewrittenResume(last')) =>
          last'.upload_tried]_vars

\* the recorded path names the document: its path or its file name
Names(recorded, document) ==
    document # None /\ (recorded = document \/ recorded = Basename(document))

\* C40: when the rewriter produced a resume for a posting, the upload step of
\* its Easy Apply application attaches that document, and the resume path of the
\* success entry names the document that was attached
C40_RewrittenResumeAttached ==
    (last.result = "applied" /\ last.path = "easy" /\ last.rewrite = "document") =>
        /\ last.attached = RewrittenResume
        /\ Names(SuccessRows[Len(SuccessRows)][ColResume], last.attached)

====
